---- MODULE Spec2Model ----
(***************************************************************************)
(* Health Whisperer nudge worker (workers/nudge_worker.py) and the rule    *)
(* engine helpers (nudge_engine.py, services/nudges.py).                   *)
(*                                                                         *)
(* Time is counted in minutes; all users live in one timezone, so `now`    *)
(* is the users' local clock (minutes since local midnight of day 0).      *)
(***************************************************************************)
EXTENDS Integers, Sequences, FiniteSets, TLC

\* ------------------------------------------------------------------ bounds
MaxTicks == 2          \* iterations of main_loop explored with the event queue
SweepTicks == 3        \* iterations of main_loop explored on the periodic path alone
CycleTicks == 2        \* iterations of main_loop explored for a cycle and its re-run
RaceCycles == 2        \* process_user calls per worker explored in the race
MaxEvents == 2         \* rows ever inserted into hw_events
MaxDisturb == 1        \* busy calendar answers and failed sends / inserts / updates
MaxSamples == 3        \* rows of hw_metrics written during the user's day
MaxMeals == 2          \* rows of hw_meals written during the user's day

\* ------------------------------------------------------- program constants
STEP_BUCKET == 500
KCAL_BUCKET == 100
WATER_BUCKET == 100
COOLDOWN_MIN_PER_TYPE == 5
RECENT_LIMIT == 20     \* .limit(20) of sent_same_type_recently
DRAIN_LIMIT == 50      \* .limit(50) of process_events
RUN_EVERY_SECONDS == 60
ATE_RECENTLY_MINUTES == 75   \* the default of ate_recently's minutes

Users == {"u1", "u2"}
UidOrder == <<"u1", "u2">>          \* the order hw_preferences returns the uids in
Movers == {"u1"}                    \* the users who log metrics and meals during the run
\* Minutes between the starts of two loop iterations: the sleep, or more when
\* the iteration itself (store, calendar and telegram calls) was slow.
Delays == {RUN_EVERY_SECONDS \div 60, 5}
StartTimes == {13 * 60 + 55, 22 * 60 + 55}

NoHash == <<>>                      \* last_nudge_hash is NULL

\* ------------------------------------------------------------ time helpers
TimeOfDay(t) == t % (24 * 60)
HourOf(t) == TimeOfDay(t) \div 60
HM(h, m) == h * 60 + m

\* ------------------------------------------------------- suppression gates
\* workers/nudge_worker.py is_quiet_hours: start/end are now_l with the
\* hour and minute replaced, so the comparison is one of times of day.
is_quiet_hours(tod, start, end) ==
  IF start <= end
    THEN start <= tod /\ tod <= end
    ELSE ~(end < tod /\ tod < start)

\* nudge_engine.py in_quiet_hours
in_quiet_hours(tod, qs, qe) ==
  IF qs <= qe
    THEN qs <= tod /\ tod < qe
    ELSE tod >= qs \/ tod < qe

\* ------------------------------------------------------------------ nudges
\* Python 3 round(): round half to even.
PyRound(val, size) ==
  LET q == val \div size
      r == val % size
  IN  IF 2 * r < size THEN q
      ELSE IF 2 * r > size THEN q + 1
      ELSE IF q % 2 = 0 THEN q ELSE q + 1

_bucket(val, size) == IF val <= 0 THEN 0 ELSE PyRound(val, size) * size

Nudge(type, msg, bucket) ==
  [type |-> type, msg |-> msg, hash_key |-> <<type, bucket>>]

\* A faulty variant of the slice: the list is returned whole.
WholeList(s) == s

\* nudges[:3]
FirstThree(s) == IF Len(s) > 3 THEN SubSeq(s, 1, 3) ELSE s

\* build_nudges from the rule part on: g holds the deficits and signals the
\* function derived from the stores (kcal_def, ate, step_def, water_def,
\* sleep_low, mood_low), hour is now_l.hour.
build_nudges(hour, g) ==
  LET kcal  == IF g.kcal_def >= 150 /\ ~g.ate /\ hour >= 11
                 THEN <<Nudge("kcal_pace", g.kcal_def, _bucket(g.kcal_def, KCAL_BUCKET))>>
                 ELSE <<>>
      steps == IF g.step_def >= 500 /\ hour >= 10
                 THEN <<Nudge("steps_pace", g.step_def, _bucket(g.step_def, STEP_BUCKET))>>
                 ELSE <<>>
      water == IF g.water_def >= 150
                 THEN <<Nudge("water_pace", g.water_def, _bucket(g.water_def, WATER_BUCKET))>>
                 ELSE <<>>
      sleep == IF g.sleep_low THEN <<Nudge("sleep_recovery", 0, 1)>> ELSE <<>>
      mood  == IF g.mood_low THEN <<Nudge("mood_reset", 0, 1)>> ELSE <<>>
      found == kcal \o steps \o water \o sleep \o mood
      nudges == IF found = <<>> /\ 10 <= hour /\ hour <= 18
                  THEN <<Nudge("breathing", 0, 1)>>
                  ELSE found
  IN  IF nudges # <<>> THEN FirstThree(nudges) ELSE <<Nudge("on_track", 0, 1)>>

\* nudges_hash: sha256 over the concatenated hash keys of ALL candidates.
\* sha256 is modelled as injective: the digest is the blob it was fed.
nudges_hash(nudges) == [i \in 1..Len(nudges) |-> nudges[i].hash_key]

\* services/nudges.py nudge_hash: the blob is title|msg of every candidate.
nudge_hash(nudges) == [i \in 1..Len(nudges) |-> <<nudges[i].type, nudges[i].msg>>]

\* A faulty variant of react_to_event: the test of the local hour is left out.
react_to_event_any_hour(hour, ev) ==
  IF ev.kind = "metrics_saved" /\ ev.water_ml = 0
    THEN <<Nudge("water_first", 0, 1)>>
  ELSE IF ev.kind = "meal_logged" /\ ev.meal_type = "dinner" /\ ev.calories >= 800
    THEN <<Nudge("heavy_dinner", 0, 1)>>
  ELSE <<>>

\* react_to_event: the reflex candidates of one event.
react_to_event(hour, ev) ==
  IF ev.kind = "metrics_saved" /\ ev.water_ml = 0 /\ 10 <= hour /\ hour <= 16
    THEN <<Nudge("water_first", 0, 1)>>
  ELSE IF ev.kind = "meal_logged" /\ ev.meal_type = "dinner" /\ ev.calories >= 800
    THEN <<Nudge("heavy_dinner", 0, 1)>>
  ELSE <<>>

\* ------------------------------------------------------------------- state
VARIABLES
  now,              \* the clock, in minutes
  ticks,            \* iterations of main_loop started so far
  prefs,            \* hw_preferences: one row per user (without last_nudge_hash)
  last_nudge_hash,  \* hw_preferences.last_nudge_hash, per user
  gaps,             \* per user, what build_nudges derives from hw_metrics / hw_meals
  log,              \* hw_nudges_log, in insertion order
  events,           \* hw_events, in insertion (= ts) order; the id is the index
  batch,            \* process_events: ids of the drained rows still to handle
  todo,             \* main_loop: uids of the sweep still to process
  crashed,          \* main_loop has exited with an exception
  sent,             \* every nudge that reached a user (telegram message, in-app row)
  last,             \* what the last handler step did
  disturb,          \* disturbances so far
  fx,               \* inputs and results of the pure-function specifications
  cyc               \* per worker process, its process_user call in flight

vars == <<now, ticks, prefs, last_nudge_hash, gaps, log, events, batch, todo,
          crashed, sent, last, disturb, fx, cyc>>

\* The worker's state without the probe of the pure functions.
wvars == <<now, ticks, prefs, last_nudge_hash, gaps, log, events, batch, todo,
           crashed, sent, last, disturb, cyc>>

\* -------------------------------------------------------------- input sets
Pref(channel, chat) ==
  [nudge_channel |-> channel, telegram_chat_id |-> chat,
   nudge_cadence |-> "smart",
   quiet_start |-> <<22, 0>>, quiet_end |-> <<7, 0>>]

\* The rows of hw_preferences at the start: a mover is on telegram with or
\* without a linked chat, or on the in-app channel; the other users are on
\* telegram with a linked chat.
PrefSet(u) ==
  IF u \in Movers
    THEN { Pref("telegram", TRUE), Pref("telegram", FALSE), Pref("inapp", FALSE) }
    ELSE { Pref("telegram", TRUE) }

Gap(k, a, s) ==
  [kcal_def |-> k, ate |-> a, step_def |-> s, water_def |-> 0,
   sleep_low |-> FALSE, mood_low |-> FALSE]

NoGap == Gap(0, FALSE, 0)

GapSet == { NoGap, Gap(300, FALSE, 0), Gap(260, FALSE, 1000) }

EventSet ==
  { [kind |-> "metrics_saved", water_ml |-> 0, meal_type |-> "", calories |-> 0],
    [kind |-> "meal_logged", water_ml |-> 0, meal_type |-> "dinner", calories |-> 900] }

\* last: the handler that ran (op), its user and event, what it met on its
\* way (busy: the calendar was asked and answered busy; send_ok, log_ok,
\* upd_ok: FALSE when the send, the log insert or the handler's closing
\* update -- of last_nudge_hash or of the processed flag -- was attempted and
\* failed), its candidates and their hash, the terminal state it ended in
\* and whether it raised.
NoStep ==
  [op |-> "none", uid |-> "", ev |-> 0, busy |-> FALSE, send_ok |-> TRUE,
   log_ok |-> TRUE, upd_ok |-> TRUE, result |-> "", raised |-> FALSE,
   nudges |-> <<>>, h |-> NoHash]

NoFx == [fn |-> "none"]

\* Worker processes started on the same store.
Workers == {"w1", "w2"}

\* A worker outside process_user.  pc: where the call stands; n: the calls
\* started so far; last_h: pf.get("last_nudge_hash") as read at the head of
\* the call; h: the hash of the candidates; result: how the call ended.
NoCycle == [pc |-> "idle", n |-> 0, last_h |-> NoHash, h |-> NoHash, result |-> ""]

\* ------------------------------------------------------- reads of the store
Channel(u) == IF prefs[u].nudge_channel = "inapp" THEN "inapp" ELSE "telegram"

QuietNow(u) ==
  is_quiet_hours(TimeOfDay(now),
                 HM(prefs[u].quiet_start[1], prefs[u].quiet_start[2]),
                 HM(prefs[u].quiet_end[1], prefs[u].quiet_end[2]))

\* A faulty variant of the gates: the quiet-hours test is left out.
BusyGateOnly(u, busy) == busy

\* process_user / process_events: the two suppression gates, quiet hours first.
\* busy is what busy_by_calendar answers for the user's feed at this instant.
Suppressed(u, busy) == QuietNow(u) \/ busy

\* The rows sent_same_type_recently reads: the user's telegram rows not older
\* than `minutes`, newest first, at most RECENT_LIMIT of them.
RecentRows(u, minutes) ==
  LET hit == { i \in 1..Len(log) :
                 /\ log[i].uid = u
                 /\ log[i].channel = "telegram"
                 /\ log[i].ts >= now - minutes }
  IN  { i \in hit : Cardinality({ j \in hit : j > i }) < RECENT_LIMIT }

sent_same_type_recently(u, nudge_type, minutes) ==
  \E i \in RecentRows(u, minutes) : log[i].type = nudge_type

\* A faulty variant of the short-circuit: the cached hash is never consulted.
NeverSameAsLast(u, h) == FALSE

\* process_user: the hash short-circuit against the cached last hash.
SameAsLast(u, h) == last_nudge_hash[u] = h

\* ------------------------------------------------------ dispatch & logging
\* A faulty variant of the log row: it is keyed by the first uid of the
\* sweep instead of the uid the handler was called with.
RowOfFirstUid(u, n, h, channel) ==
  [uid |-> UidOrder[1], ts |-> now, channel |-> channel, type |-> n.type,
   hash |-> h]

Row(u, n, h, channel) ==
  [uid |-> u, ts |-> now, channel |-> channel, type |-> n.type, hash |-> h]

\* src: the id of the event the nudge answers, 0 on the periodic path
Msg(u, n, h, channel, src) ==
  [uid |-> u, ts |-> now, channel |-> channel, type |-> n.type,
   key |-> n.hash_key, hash |-> h, src |-> src]

\* insert_nudge_log: a failed insert is swallowed ("non-fatal").
insert_nudge_log(l, u, n, h, channel, log_ok) ==
  IF log_ok THEN Append(l, Row(u, n, h, channel)) ELSE l

\* A faulty variant of send_telegram: the log row is written before the
\* send is attempted.
send_telegram_log_first(u, n, h, src, send_ok, log_ok) ==
  IF ~prefs[u].telegram_chat_id
    THEN [log |-> log, sent |-> sent, raised |-> FALSE, result |-> "no_chat",
          send_ok |-> TRUE, log_ok |-> TRUE]
  ELSE [log |-> insert_nudge_log(log, u, n, h, "telegram", log_ok),
        sent |-> IF send_ok THEN Append(sent, Msg(u, n, h, "telegram", src))
                 ELSE sent,
        raised |-> ~send_ok,
        result |-> IF send_ok THEN "sent" ELSE "send_failed",
        send_ok |-> send_ok, log_ok |-> log_ok]

\* send_telegram: no destination -> silent return; a failed send raises
\* before anything is logged.
send_telegram(u, n, h, src, send_ok, log_ok) ==
  IF ~prefs[u].telegram_chat_id
    THEN [log |-> log, sent |-> sent, raised |-> FALSE, result |-> "no_chat",
          send_ok |-> TRUE, log_ok |-> TRUE]
  ELSE IF ~send_ok
    THEN [log |-> log, sent |-> sent, raised |-> TRUE, result |-> "send_failed",
          send_ok |-> FALSE, log_ok |-> TRUE]
  ELSE [log |-> insert_nudge_log(log, u, n, h, "telegram", log_ok),
        sent |-> Append(sent, Msg(u, n, h, "telegram", src)),
        raised |-> FALSE, result |-> "sent",
        send_ok |-> TRUE, log_ok |-> log_ok]

\* A faulty variant of dispatch: the in-app row is written whatever the
\* channel, and the telegram send follows for the users on telegram.
dispatch_every_channel(u, n, h, src, send_ok, log_ok) ==
  [log |-> insert_nudge_log(log, u, n, h, "inapp", log_ok),
   sent |-> IF Channel(u) = "inapp"
              THEN Append(sent, Msg(u, n, h, "inapp", src))
              ELSE Append(Append(sent, Msg(u, n, h, "inapp", src)),
                          Msg(u, n, h, "telegram", src)),
   raised |-> FALSE, result |-> "sent", send_ok |-> TRUE, log_ok |-> log_ok]

\* The channel branch shared by process_user and process_events.
dispatch(u, n, h, src, send_ok, log_ok) ==
  IF Channel(u) = "inapp"
    THEN [log |-> insert_nudge_log(log, u, n, h, "inapp", log_ok),
          sent |-> IF log_ok THEN Append(sent, Msg(u, n, h, "inapp", src)) ELSE sent,
          raised |-> FALSE,
          result |-> IF log_ok THEN "sent" ELSE "log_failed",
          send_ok |-> TRUE, log_ok |-> log_ok]
    ELSE send_telegram(u, n, h, src, send_ok, log_ok)

\* What a handler met when nothing went wrong.
Smooth == [busy |-> FALSE, send_ok |-> TRUE, log_ok |-> TRUE, upd_ok |-> TRUE]

\* The calendar is asked only outside quiet hours.
CalendarBusy(u, busy) == busy /\ ~QuietNow(u)

\* The answers a handler does not ask for are left at their defaults.
Asked(io, busy, send_ok, log_ok, upd_ok) ==
  io = [busy |-> busy, send_ok |-> send_ok, log_ok |-> log_ok, upd_ok |-> upd_ok]

\* How many disturbances a handler met.
Disturbances(io) ==
  (IF io.busy THEN 1 ELSE 0) + (IF io.send_ok THEN 0 ELSE 1)
  + (IF io.log_ok THEN 0 ELSE 1) + (IF io.upd_ok THEN 0 ELSE 1)

\* --------------------------------------------------- periodic user processor
\* process_user(uid): the values it leaves behind and the terminal state it
\* ends in.  A raise (failed send, failed update of last_nudge_hash) is
\* caught by main_loop's try/except.
process_user(u, busy, send_ok, log_ok, upd_ok) ==
  LET nudges == build_nudges(HourOf(now), gaps[u])
      h == nudges_hash(nudges)
      n == nudges[1]
      d == dispatch(u, n, h, 0, send_ok, log_ok)
      skip(why) == [log |-> log, sent |-> sent, hash |-> last_nudge_hash[u],
                    result |-> why, raised |-> FALSE, nudges |-> nudges, h |-> h,
                    io |-> Smooth]
  IN  IF Suppressed(u, busy)
        THEN [skip("suppressed") EXCEPT !.nudges = <<>>, !.h = NoHash]
      ELSE IF SameAsLast(u, h) THEN skip("same_hash")
      ELSE IF sent_same_type_recently(u, n.type, COOLDOWN_MIN_PER_TYPE)
        THEN skip("cooldown")
      ELSE IF d.raised
        THEN [log |-> d.log, sent |-> d.sent, hash |-> last_nudge_hash[u],
              result |-> d.result, raised |-> TRUE, nudges |-> nudges, h |-> h,
              io |-> [Smooth EXCEPT !.send_ok = d.send_ok, !.log_ok = d.log_ok]]
      ELSE [log |-> d.log, sent |-> d.sent,
            hash |-> IF upd_ok THEN h ELSE last_nudge_hash[u],
            result |-> d.result, raised |-> ~upd_ok, nudges |-> nudges, h |-> h,
            io |-> [Smooth EXCEPT !.send_ok = d.send_ok, !.log_ok = d.log_ok,
                                  !.upd_ok = upd_ok]]

\* main_loop: one pass of `for uid in uids: try: await process_user(uid)`.
SweepUser(busy, send_ok, log_ok, upd_ok) ==
  /\ ~crashed /\ batch = <<>> /\ todo # <<>>
  /\ LET u == Head(todo)
         r == process_user(u, busy, send_ok, log_ok, upd_ok)
         io == [r.io EXCEPT !.busy = CalendarBusy(u, busy)]
     IN  /\ Asked(io, busy, send_ok, log_ok, upd_ok)
         /\ log' = r.log
         /\ sent' = r.sent
         /\ last_nudge_hash' = [last_nudge_hash EXCEPT ![u] = r.hash]
         /\ last' = [op |-> "user", uid |-> u, ev |-> 0, busy |-> io.busy,
                     send_ok |-> io.send_ok, log_ok |-> io.log_ok,
                     upd_ok |-> io.upd_ok, result |-> r.result,
                     raised |-> r.raised, nudges |-> r.nudges, h |-> r.h]
         /\ disturb' = disturb + Disturbances(io)
  /\ todo' = Tail(todo)
  /\ disturb' <= MaxDisturb
  /\ UNCHANGED <<now, ticks, prefs, gaps, events, batch, crashed, fx, cyc>>

\* ------------------------------------------------- reactive event processor
\* The body of the `for ev in r.data` loop of process_events for one row.
\* marked: the row's processed flag was set; raised: an exception left the
\* loop (process_events has no try/except, and main_loop calls it outside
\* its own).
handle_event(id, busy, send_ok, log_ok, upd_ok) ==
  LET ev == events[id]
      u == ev.uid
      msgs == react_to_event(HourOf(now), ev)
      m == msgs[1]
      h == nudges_hash(msgs)
      d == dispatch(u, m, h, id, send_ok, log_ok)
      done(why, l, s) == [log |-> l, sent |-> s, result |-> why,
                          marked |-> upd_ok, raised |-> ~upd_ok,
                          nudges |-> msgs, h |-> h,
                          io |-> [Smooth EXCEPT !.upd_ok = upd_ok]]
  IN  IF Suppressed(u, busy)
        THEN [done("suppressed", log, sent) EXCEPT !.nudges = <<>>, !.h = NoHash]
      ELSE IF msgs = <<>> THEN done("no_reflex", log, sent)
      ELSE IF sent_same_type_recently(u, m.type, COOLDOWN_MIN_PER_TYPE)
        THEN done("cooldown", log, sent)
      ELSE IF d.raised
        THEN [log |-> d.log, sent |-> d.sent, result |-> d.result,
              marked |-> FALSE, raised |-> TRUE, nudges |-> msgs, h |-> h,
              io |-> [Smooth EXCEPT !.send_ok = d.send_ok, !.log_ok = d.log_ok]]
      ELSE [done(d.result, d.log, d.sent) EXCEPT !.io.send_ok = d.send_ok,
                                                 !.io.log_ok = d.log_ok]

HandleEvent(busy, send_ok, log_ok, upd_ok) ==
  /\ ~crashed /\ batch # <<>>
  /\ LET id == Head(batch)
         r == handle_event(id, busy, send_ok, log_ok, upd_ok)
         io == [r.io EXCEPT !.busy = CalendarBusy(events[id].uid, busy)]
     IN  /\ Asked(io, busy, send_ok, log_ok, upd_ok)
         /\ log' = r.log
         /\ sent' = r.sent
         /\ events' = [events EXCEPT ![id].processed = r.marked]
         /\ crashed' = r.raised
         /\ batch' = IF r.raised THEN <<>> ELSE Tail(batch)
         /\ todo' = IF r.raised THEN <<>> ELSE todo
         /\ last' = [op |-> "event", uid |-> events[id].uid, ev |-> id,
                     busy |-> io.busy, send_ok |-> io.send_ok,
                     log_ok |-> io.log_ok, upd_ok |-> io.upd_ok,
                     result |-> r.result, raised |-> r.raised,
                     nudges |-> r.nudges, h |-> r.h]
         /\ disturb' = disturb + Disturbances(io)
  /\ disturb' <= MaxDisturb
  /\ UNCHANGED <<now, ticks, prefs, last_nudge_hash, gaps, fx, cyc>>

\* ----------------------------------------------------------------- main loop
Idle == batch = <<>> /\ todo = <<>>

RECURSIVE Unprocessed(_)
\* ids of the unprocessed rows from id on, oldest first
Unprocessed(id) ==
  IF id > Len(events) THEN <<>>
  ELSE IF events[id].processed THEN Unprocessed(id + 1)
  ELSE <<id>> \o Unprocessed(id + 1)

\* A faulty variant of the select: the filter on processed is left out.
DrainedUnfiltered ==
  IF Len(events) > DRAIN_LIMIT THEN [i \in 1..DRAIN_LIMIT |-> i]
  ELSE [i \in 1..Len(events) |-> i]

\* A faulty variant of the select: the limit is left out.
DrainedUnlimited == Unprocessed(1)

\* select * from hw_events where processed = false order by ts limit 50
Drained ==
  LET all == Unprocessed(1)
  IN  IF Len(all) > DRAIN_LIMIT THEN SubSeq(all, 1, DRAIN_LIMIT) ELSE all

\* asyncio.sleep(RUN_EVERY_SECONDS) and the head of the next iteration: the
\* uids are read and the unprocessed events are selected.
Loop(d) ==
  /\ ~crashed /\ Idle
  /\ now' = now + d
  /\ ticks' = ticks + 1
  /\ batch' = Drained
  /\ todo' = UidOrder
  /\ last' = [NoStep EXCEPT !.op = "tick"]
  /\ UNCHANGED <<prefs, last_nudge_hash, gaps, log, events, crashed, sent,
                 disturb, fx, cyc>>

Tick(d) == ticks < MaxTicks /\ Loop(d)

SweepTick(d) == ticks < SweepTicks /\ Loop(d)

CycleTick(d) == ticks < CycleTicks /\ Loop(d)

\* The worker process is started again after main_loop died; it keeps no
\* state of its own.
Restart ==
  /\ crashed
  /\ crashed' = FALSE
  /\ last' = [NoStep EXCEPT !.op = "restart"]
  /\ UNCHANGED <<now, ticks, prefs, last_nudge_hash, gaps, log, events, batch,
                 todo, sent, disturb, fx, cyc>>

\* --------------------------------------------------------------- environment
\* pages/06_Log_Metrics.py: a saved metrics form or meal inserts an event.
InsertEvent(u, e) ==
  /\ ~crashed /\ Idle /\ ticks < MaxTicks /\ Len(events) < MaxEvents
  /\ events' = Append(events, e @@ [uid |-> u, ts |-> now, processed |-> FALSE])
  /\ last' = [NoStep EXCEPT !.op = "env"]
  /\ UNCHANGED <<now, ticks, prefs, last_nudge_hash, gaps, log, batch, todo,
                 crashed, sent, disturb, fx, cyc>>

\* New metrics or meals (or the passing of the day) change what
\* build_nudges derives for a user.
ChangeGaps(u, g) ==
  /\ Idle /\ gaps[u] # g
  /\ gaps' = [gaps EXCEPT ![u] = g]
  /\ last' = [NoStep EXCEPT !.op = "env"]
  /\ UNCHANGED <<now, ticks, prefs, last_nudge_hash, log, events, batch, todo,
                 crashed, sent, disturb, fx, cyc>>

Init ==
  /\ now \in StartTimes
  /\ ticks = 0
  /\ prefs \in { p \in [Users -> UNION { PrefSet(u) : u \in Users }] :
                   \A u \in Users : p[u] \in PrefSet(u) }
  /\ last_nudge_hash = [u \in Users |-> NoHash]
  /\ gaps = [u \in Users |-> NoGap]
  /\ log = <<>>
  /\ events = <<>>
  /\ batch = <<>>
  /\ todo = <<>>
  /\ crashed = FALSE
  /\ sent = <<>>
  /\ last = NoStep
  /\ disturb = 0
  /\ fx = NoFx
  /\ cyc = [w \in Workers |-> NoCycle]

Next ==
  \/ \E d \in Delays : Tick(d)
  \/ \E busy, send_ok, log_ok, upd_ok \in BOOLEAN :
       HandleEvent(busy, send_ok, log_ok, upd_ok)
  \/ \E busy, send_ok, log_ok, upd_ok \in BOOLEAN :
       SweepUser(busy, send_ok, log_ok, upd_ok)
  \/ Restart
  \/ \E u \in Movers, e \in EventSet : InsertEvent(u, e)

\* The worker with its event queue; the users' metrics and meals stay as
\* they are.
Spec == Init /\ [][Next]_vars

NextSweep ==
  \/ \E d \in Delays : SweepTick(d)
  \/ \E busy, send_ok, log_ok, upd_ok \in BOOLEAN :
       SweepUser(busy, send_ok, log_ok, upd_ok)
  \/ \E u \in Movers, g \in GapSet : ticks < SweepTicks /\ ChangeGaps(u, g)

\* The periodic path alone: no event is ever inserted, the users' metrics
\* and meals change between the sweeps.
SpecSweep == Init /\ [][NextSweep]_vars

NextCycle ==
  \/ \E d \in Delays : CycleTick(d)
  \/ \E busy, send_ok, log_ok, upd_ok \in BOOLEAN :
       SweepUser(busy, send_ok, log_ok, upd_ok)
  \/ \E u \in Movers, g \in GapSet : ticks < CycleTicks /\ ChangeGaps(u, g)

\* The periodic path alone, for a sweep and the sweep that follows it.
SpecCycle == Init /\ [][NextCycle]_vars

\* ------------------------------------------------- the quiet-hours functions
\* The worker at rest, for the specifications that only apply a function.
AtRest ==
  /\ now = 0
  /\ ticks = 0
  /\ prefs = [u \in Users |-> Pref("telegram", TRUE)]
  /\ last_nudge_hash = [u \in Users |-> NoHash]
  /\ gaps = [u \in Users |-> NoGap]
  /\ log = <<>>
  /\ events = <<>>
  /\ batch = <<>>
  /\ todo = <<>>
  /\ crashed = FALSE
  /\ sent = <<>>
  /\ last = NoStep
  /\ disturb = 0
  /\ cyc = [w \in Workers |-> NoCycle]

\* Quiet windows as (start, end) in minutes of the day: the default, which
\* wraps midnight, and a window inside one day.
QuietWindows == { <<HM(22, 0), HM(7, 0)>>, <<HM(9, 0), HM(17, 0)>> }

\* Both gates applied to the local time t and the window w.
QuietAt(t, w) ==
  [fn |-> "quiet", t |-> t, qs |-> w[1], qe |-> w[2],
   worker |-> is_quiet_hours(t, w[1], w[2]),
   engine |-> in_quiet_hours(t, w[1], w[2])]

InitQuiet == AtRest /\ fx \in { QuietAt(0, w) : w \in QuietWindows }

\* The next minute of the day.
QuietNext ==
  /\ fx.t + 1 < 24 * 60
  /\ fx' = QuietAt(fx.t + 1, <<fx.qs, fx.qe>>)
  /\ UNCHANGED wvars

SpecQuiet == InitQuiet /\ [][QuietNext]_vars

\* The minutes of the day inside [s, e), counted forward from s and
\* wrapping at midnight.
HalfOpen(s, e) == { (s + k) % (24 * 60) : k \in 0 .. ((e - s) % (24 * 60)) - 1 }

\* C1: for every local time t and quiet window (start, end) the gate
\* reports quiet exactly when t lies in [start, end), wrapping midnight when
\* start > end.  (Stated for the worker's gate and for the engine's.)
C1_QuietExactlyInWindow ==
  fx.fn = "quiet" =>
    /\ fx.worker = (fx.t \in HalfOpen(fx.qs, fx.qe))
    /\ fx.engine = (fx.t \in HalfOpen(fx.qs, fx.qe))

\* The engine's in_quiet_hours alone does agree with [start, end).
C1_EngineExactlyInWindow ==
  fx.fn = "quiet" => fx.engine = (fx.t \in HalfOpen(fx.qs, fx.qe))

\* ------------------------------------------------------ the periodic cycle
\* The step is process_user(u): main_loop takes u from the head of its sweep.
SweepStep(u) ==
  /\ batch = <<>> /\ todo # <<>> /\ Head(todo) = u
  /\ todo' = Tail(todo)
  /\ last'.op = "user"

\* What the cycle of u dispatches: the messages the step adds to sent.
Dispatched(u) ==
  [i \in 1 .. (Len(sent') - Len(sent)) |-> sent'[Len(sent) + i]]

DispatchesNothing == sent' = sent /\ log' = log

\* C2: when the quiet-hours gate or the calendar-busy gate fires for a user
\* in a periodic tick, the cycle is skipped before any rule evaluation:
\* nothing is sent, nothing is appended to the decision log and the user's
\* last_nudge_hash is unchanged.
C2_SuppressedCycleSkips ==
  [][\A u \in Users :
       (SweepStep(u) /\ (QuietNow(u) \/ last'.busy)) =>
         /\ DispatchesNothing
         /\ last_nudge_hash' = last_nudge_hash
         /\ last'.nudges = <<>>]_vars

\* A cycle of u1 has run at local 23:00 with the default quiet window, a
\* calorie deficit of 300 kcal open and nothing dispatched before.
C2_Witness ==
  /\ last.op = "user" /\ last.uid = "u1"
  /\ TimeOfDay(now) = HM(23, 0)
  /\ prefs["u1"].quiet_start = <<22, 0>> /\ prefs["u1"].quiet_end = <<7, 0>>
  /\ gaps["u1"].kcal_def = 300 /\ ~gaps["u1"].ate
  /\ sent = <<>>

\* ------------------------------------------------------- the dedup ledger
Lookback == 2 * 60      \* the ledger's lookback window, in minutes

\* The hash of the decision the cycle of u produces now.
HashNow(u) == nudges_hash(build_nudges(HourOf(now), gaps[u]))

\* A decision with hash h was logged for u within the lookback window.
LoggedWithin(u, h, minutes) ==
  \E i \in 1 .. Len(log) :
    log[i].uid = u /\ log[i].hash = h /\ log[i].ts >= now - minutes

\* C3: if a decision with content hash H was logged for a user within the
\* lookback window, a later periodic cycle inside that window that produces
\* the same H dispatches nothing, also when a decision with another hash
\* was dispatched in between.
C3_LoggedHashSuppresses ==
  [][\A u \in Users :
       (SweepStep(u) /\ LoggedWithin(u, HashNow(u), Lookback)) =>
         DispatchesNothing]_vars

\* C4: for every user, nudge type and channel, on both paths, two nudges of
\* the same type are never dispatched within the per-type cooldown of each
\* other, whatever their hash.
C4_CooldownPerType ==
  \A i, j \in 1 .. Len(sent) :
    (i < j /\ sent[i].uid = sent[j].uid /\ sent[i].type = sent[j].type) =>
      sent[j].ts - sent[i].ts > COOLDOWN_MIN_PER_TYPE

\* C5: handling the same event more than once produces at most one
\* delivered nudge for that event.
C5_ReplayDeliversOnce ==
  \A id \in 1 .. Len(events) :
    Cardinality({ i \in 1 .. Len(sent) : sent[i].src = id }) <= 1

\* ------------------------------------------------------ the spec's scenario
\* The scenario's inputs for u: the default quiet window, a calorie deficit
\* of 300 kcal and no meal in the last 75 minutes.
KcalScenario(u) ==
  /\ prefs[u].quiet_start = <<22, 0>> /\ prefs[u].quiet_end = <<7, 0>>
  /\ gaps[u].kcal_def = 300 /\ ~gaps[u].ate

\* Nothing was ever decided for u.
EmptyLedger(u) ==
  /\ last_nudge_hash[u] = NoHash
  /\ \A i \in 1 .. Len(log) : log[i].uid # u
  /\ \A i \in 1 .. Len(sent) : sent[i].uid # u

\* The cycle of u dispatches exactly one calorie-pace nudge.
OneKcalPace(u) ==
  /\ Len(Dispatched(u)) = 1
  /\ Dispatched(u)[1].uid = u
  /\ Dispatched(u)[1].type = "kcal_pace"

\* u's only decision so far is the calorie-pace nudge of the cycle five
\* minutes ago, and the inputs are what they were then.
FiveMinutesAfter(u) ==
  /\ \E i \in 1 .. Len(sent) :
       /\ sent[i].uid = u /\ sent[i].src = 0 /\ sent[i].type = "kcal_pace"
       /\ sent[i].ts = now - 5 /\ sent[i].hash = HashNow(u)
  /\ \A i \in 1 .. Len(sent) : sent[i].uid = u => sent[i].ts = now - 5

\* The user has a destination on the chosen channel.
Reachable(u) == Channel(u) = "inapp" \/ prefs[u].telegram_chat_id

C7_ProcessedOnlyAfterHandling ==
  [][\A id \in 1 .. Len(events) :
       /\ (~events[id].processed /\ events'[id].processed) =>
            /\ last'.op = "event" /\ last'.ev = id
            /\ last'.result \in {"sent", "suppressed", "no_reflex",
                                 "cooldown", "no_chat"}
       /\ (last'.op = "event" /\ last'.ev = id
             /\ last'.result \in {"send_failed", "log_failed"}) =>
            ~events'[id].processed]_vars

\* C8: a failure while handling one user, in the periodic sweep or while
\* draining that user's events, never aborts the sweep: the remaining users
\* are still processed in the same tick and the main loop goes on.
C8_FailureNeverAborts ==
  [][(last'.op \in {"user", "event"} /\ last'.raised) =>
       /\ ~crashed'
       /\ (last'.op = "user" => todo' = Tail(todo))
       /\ (last'.op = "event" => todo' = UidOrder)]_vars

\* C9: the content hash of a decision depends only on the dispatched
\* nudge's (type, bucketed magnitude): two periodic cycles that dispatch the
\* same type with the same bucket get the same hash.
C9_HashOfDispatchedOnly ==
  \A i, j \in 1 .. Len(sent) :
    (sent[i].src = 0 /\ sent[j].src = 0 /\ sent[i].key = sent[j].key) =>
      sent[i].hash = sent[j].hash

\* The periodic nudges sent to u so far, as indices of sent.
SentTo(u) == { i \in 1 .. Len(sent) : sent[i].uid = u /\ sent[i].src = 0 }

\* The (type, bucket) of the last nudge sent to u.
LastSentKey(u) ==
  sent[CHOOSE i \in SentTo(u) : \A j \in SentTo(u) : j <= i].key

\* The (type, bucket) of the decision the cycle of u produces now.
KeyNow(u) == build_nudges(HourOf(now), gaps[u])[1].hash_key

\* C10: a periodic cycle whose decision differs from the last sent one in
\* type or in magnitude bucket is not suppressed by the hash check.
C10_DifferentDecisionPassesHash ==
  [][\A u \in Users :
       (SweepStep(u) /\ SentTo(u) # {} /\ LastSentKey(u) # KeyNow(u)) =>
         last'.result # "same_hash"]_vars

\* ---------------------------------------------------- the delivery record
\* The log row i records a nudge that reached its user.
Delivered(i) ==
  \E j \in 1 .. Len(sent) :
    /\ sent[j].uid = log[i].uid /\ sent[j].ts = log[i].ts
    /\ sent[j].channel = log[i].channel
    /\ sent[j].type = log[i].type /\ sent[j].hash = log[i].hash

\* C11: on the telegram channel a nudge is recorded as delivered only if the
\* send succeeded: when the send raises or no chat id can be resolved, the
\* handler adds no row to the decision log.
C11_TelegramLoggedOnlyIfSent ==
  /\ \A i \in 1 .. Len(log) : log[i].channel = "telegram" => Delivered(i)
  /\ (last.op \in {"user", "event"} /\ last.result \in {"send_failed", "no_chat"})
       => \A i \in 1 .. Len(log) :
            (log[i].uid = last.uid /\ log[i].ts = now) => log[i].hash # last.h

\* A telegram send has just failed for a user with a linked chat.
C11_Witness ==
  /\ last.op \in {"user", "event"} /\ last.result = "send_failed"
  /\ prefs[last.uid].nudge_channel = "telegram" /\ prefs[last.uid].telegram_chat_id

\* C12: a delivery attempt that fails appends a decision-log entry (recorded
\* as not delivered); an entry is always appended unless the cycle was
\* skipped by the suppression or the dedup gates.
C12_AttemptAlwaysLogged ==
  [][\A u \in Users :
       (SweepStep(u)
          /\ last'.result \notin {"suppressed", "same_hash", "cooldown"}) =>
         /\ Len(log') = Len(log) + 1
         /\ log'[Len(log')].uid = u /\ log'[Len(log')].hash = last'.h]_vars

\* ------------------------------------------------- two workers, one user
\* Two worker processes run process_user for the same user on one store.
\* The call is cut where it talks to the store or to telegram: the read of
\* the preferences, the read of the log for the cooldown, the send, the log
\* insert and the update of last_nudge_hash.  The user's metrics and meals
\* and the minute of the clock stay what they are during the race.
RaceUser == "u1"

RaceNudges == build_nudges(HourOf(now), gaps[RaceUser])

RaceVarsKept == <<now, ticks, prefs, gaps, events, batch, todo, crashed, last, fx>>

\* pf = prefs(uid) and the two suppression gates (lines 349-355).
RaceRead(w, busy) ==
  /\ cyc[w].pc \in {"idle", "done"} /\ cyc[w].n < RaceCycles
  /\ busy = CalendarBusy(RaceUser, busy)
  /\ disturb' = disturb + (IF busy THEN 1 ELSE 0)
  /\ disturb' <= MaxDisturb
  /\ cyc' = [cyc EXCEPT ![w] =
       [pc |-> IF Suppressed(RaceUser, busy) THEN "done" ELSE "read",
        n |-> cyc[w].n + 1,
        last_h |-> last_nudge_hash[RaceUser],
        h |-> NoHash,
        result |-> IF Suppressed(RaceUser, busy) THEN "suppressed" ELSE ""]]
  /\ UNCHANGED <<last_nudge_hash, log, sent>>
  /\ UNCHANGED RaceVarsKept

\* build_nudges, the hash check against the pf read before, and the read of
\* the log for the cooldown (lines 357-368).
RaceCheck(w) ==
  /\ cyc[w].pc = "read"
  /\ LET h == nudges_hash(RaceNudges)
         n == RaceNudges[1]
     IN  cyc' = [cyc EXCEPT ![w] =
           IF cyc[w].last_h = h
             THEN [@ EXCEPT !.pc = "done", !.h = h, !.result = "same_hash"]
           ELSE IF sent_same_type_recently(RaceUser, n.type, COOLDOWN_MIN_PER_TYPE)
             THEN [@ EXCEPT !.pc = "done", !.h = h, !.result = "cooldown"]
           ELSE [@ EXCEPT !.pc = "send", !.h = h]]
  /\ UNCHANGED <<last_nudge_hash, log, sent, disturb>>
  /\ UNCHANGED RaceVarsKept

\* The channel branch (lines 370-374) up to the send: the in-app insert, or
\* send_telegram up to bot.send_message.
RaceSend(w, send_ok, log_ok) ==
  /\ cyc[w].pc = "send"
  /\ LET n == RaceNudges[1]
         h == cyc[w].h
     IN  IF Channel(RaceUser) = "inapp"
           THEN /\ send_ok
                /\ log' = insert_nudge_log(log, RaceUser, n, h, "inapp", log_ok)
                /\ sent' = IF log_ok THEN Append(sent, Msg(RaceUser, n, h, "inapp", 0))
                           ELSE sent
                /\ disturb' = disturb + (IF log_ok THEN 0 ELSE 1)
                /\ cyc' = [cyc EXCEPT ![w].pc = "write",
                                      ![w].result = IF log_ok THEN "sent" ELSE "log_failed"]
         ELSE IF ~prefs[RaceUser].telegram_chat_id
           THEN /\ send_ok /\ log_ok
                /\ UNCHANGED <<log, sent, disturb>>
                /\ cyc' = [cyc EXCEPT ![w].pc = "write", ![w].result = "no_chat"]
         ELSE /\ log_ok
              /\ log' = log
              /\ sent' = IF send_ok THEN Append(sent, Msg(RaceUser, n, h, "telegram", 0))
                         ELSE sent
              /\ disturb' = disturb + (IF send_ok THEN 0 ELSE 1)
              /\ cyc' = [cyc EXCEPT ![w].pc = IF send_ok THEN "log" ELSE "done",
                                    ![w].result = IF send_ok THEN "sent" ELSE "send_failed"]
  /\ disturb' <= MaxDisturb
  /\ UNCHANGED last_nudge_hash
  /\ UNCHANGED RaceVarsKept

\* send_telegram after the send: insert_nudge_log (line 327).
RaceLog(w, log_ok) ==
  /\ cyc[w].pc = "log"
  /\ log' = insert_nudge_log(log, RaceUser, RaceNudges[1], cyc[w].h, "telegram", log_ok)
  /\ disturb' = disturb + (IF log_ok THEN 0 ELSE 1)
  /\ disturb' <= MaxDisturb
  /\ cyc' = [cyc EXCEPT ![w].pc = "write"]
  /\ UNCHANGED <<last_nudge_hash, sent>>
  /\ UNCHANGED RaceVarsKept

\* A faulty variant of the closing update: the hash is not stored.
RaceWriteNothing(w, upd_ok) ==
  /\ cyc[w].pc = "write"
  /\ disturb' = disturb + (IF upd_ok THEN 0 ELSE 1)
  /\ disturb' <= MaxDisturb
  /\ cyc' = [cyc EXCEPT ![w].pc = "done"]
  /\ UNCHANGED <<last_nudge_hash, log, sent>>
  /\ UNCHANGED RaceVarsKept

\* The update of last_nudge_hash (line 377).
RaceWrite(w, upd_ok) ==
  /\ cyc[w].pc = "write"
  /\ last_nudge_hash' = IF upd_ok
                          THEN [last_nudge_hash EXCEPT ![RaceUser] = cyc[w].h]
                          ELSE last_nudge_hash
  /\ disturb' = disturb + (IF upd_ok THEN 0 ELSE 1)
  /\ disturb' <= MaxDisturb
  /\ cyc' = [cyc EXCEPT ![w].pc = "done"]
  /\ UNCHANGED <<log, sent>>
  /\ UNCHANGED RaceVarsKept

InitRace ==
  /\ now \in StartTimes
  /\ ticks = 0
  /\ prefs \in { p \in [Users -> UNION { PrefSet(u) : u \in Users }] :
                   \A u \in Users : p[u] \in PrefSet(u) }
  /\ last_nudge_hash = [u \in Users |-> NoHash]
  /\ gaps \in { [u \in Users |-> IF u = RaceUser THEN g ELSE NoGap] : g \in GapSet }
  /\ log = <<>>
  /\ events = <<>>
  /\ batch = <<>>
  /\ todo = <<>>
  /\ crashed = FALSE
  /\ sent = <<>>
  /\ last = NoStep
  /\ disturb = 0
  /\ fx = NoFx
  /\ cyc = [w \in Workers |-> NoCycle]

NextRace ==
  \/ \E w \in Workers, busy \in BOOLEAN : RaceRead(w, busy)
  \/ \E w \in Workers : RaceCheck(w)
  \/ \E w \in Workers, send_ok, log_ok \in BOOLEAN : RaceSend(w, send_ok, log_ok)
  \/ \E w \in Workers, log_ok \in BOOLEAN : RaceLog(w, log_ok)
  \/ \E w \in Workers, upd_ok \in BOOLEAN : RaceWrite(w, upd_ok)

SpecRace == InitRace /\ [][NextRace]_vars

\* The nudges delivered to the user of the race with the hash h.
RaceDeliveries(h) ==
  { i \in 1 .. Len(sent) : sent[i].uid = RaceUser /\ sent[i].hash = h }

\* No worker is inside process_user.
RaceAtRest == \A w \in Workers : cyc[w].pc \in {"idle", "done"}

NextRestart ==
  \/ \E d \in Delays : CycleTick(d)
  \/ \E busy, send_ok, log_ok, upd_ok \in BOOLEAN :
       HandleEvent(busy, send_ok, log_ok, upd_ok)
  \/ \E busy, send_ok, log_ok, upd_ok \in BOOLEAN :
       SweepUser(busy, send_ok, log_ok, upd_ok)
  \/ Restart
  \/ \E u \in Movers, e \in EventSet : ticks = 0 /\ events = <<>> /\ InsertEvent(u, e)
  \/ \E u \in Movers, g \in GapSet : ticks = 0 /\ ChangeGaps(u, g)

\* The worker with one event queued before its first iteration: an exception
\* while the event is handled ends main_loop, the process is started again
\* and goes through its next iteration.
SpecRestart == Init /\ [][NextRestart]_vars

\* What the store and the clock alone say the cycle of u must do, the
\* calendar having answered busy or not.
StoreDecision(u, busy) ==
  IF QuietNow(u) \/ busy THEN "suppressed"
  ELSE IF last_nudge_hash[u] = HashNow(u) THEN "same_hash"
  ELSE IF \E i \in 1 .. Len(log) :
            /\ log[i].uid = u /\ log[i].channel = "telegram"
            /\ log[i].type = KeyNow(u)[1]
            /\ log[i].ts >= now - COOLDOWN_MIN_PER_TYPE
    THEN "cooldown"
  ELSE "dispatch"

\* What the cycle did.
CycleDecision(result) ==
  IF result \in {"suppressed", "same_hash", "cooldown"} THEN result ELSE "dispatch"

\* The event queued at the start was answered two iterations later: the
\* iteration in between died while handling it and the worker was restarted.
Restarted ==
  \E j \in 1 .. Len(sent) :
    /\ sent[j].src >= 1
    /\ \E d1, d2 \in Delays : sent[j].ts = events[sent[j].src].ts + d1 + d2

rules_matched(hour, baselines, latest, g) ==
  (IF g.gap_ml >= 200 /\ hour < 21 THEN <<"hydrate">> ELSE <<>>)
  \o (IF latest.steps.has /\ baselines.steps_ewma > 2 * latest.steps.v
          /\ 9 <= hour /\ hour < 20
        THEN <<"move">> ELSE <<>>)
  \o (IF hour \in {21, 22} THEN <<"sleep">> ELSE <<>>)
  \o (IF latest.hours_since_last_meal >= 5 THEN <<"meal_log">> ELSE <<>>)
  \o (IF latest.mood_logged_today.has /\ ~latest.mood_logged_today.v
          /\ 12 <= hour /\ hour < 16
        THEN <<"mood_checkin">> ELSE <<>>)

\* A faulty variant of rules_engine: the fallback is left out.
rules_engine_no_fallback(hour, baselines, latest, g) ==
  rules_matched(hour, baselines, latest, g)

\* nudge_engine.py rules_engine
rules_engine(hour, baselines, latest, g) ==
  LET eligible == rules_matched(hour, baselines, latest, g)
  IN  IF eligible = <<>> THEN <<"breathe">> ELSE eligible

Some(v) == [has |-> TRUE, v |-> v]
None == [has |-> FALSE, v |-> 0]

\* The contexts the rule engine is probed with.
BaselineSet == { [steps_ewma |-> 5000] }
LatestSet ==
  { [steps |-> st, hours_since_last_meal |-> m, mood_logged_today |-> md] :
      st \in {None, Some(1000), Some(4000)}, m \in {0, 5},
      md \in {None, Some(FALSE), Some(TRUE)} }
EngineGapSet == { [gap_ml |-> 0], [gap_ml |-> 199], [gap_ml |-> 200] }

\* What build_nudges derives from the stores, for the probe of the worker.
WorkerGapSet ==
  { [kcal_def |-> k, ate |-> a, step_def |-> st, water_def |-> w,
     sleep_low |-> sl, mood_low |-> sl] :
      k \in {0, 300}, a \in {FALSE}, st \in {0, 500}, w \in {0, 150},
      sl \in BOOLEAN }

RulesAt(hour, b, l, g, wg) ==
  [fn |-> "rules", hour |-> hour, baselines |-> b, latest |-> l, gaps |-> g,
   wgaps |-> wg,
   matched |-> rules_matched(hour, b, l, g),
   eligible |-> rules_engine(hour, b, l, g),
   nudges |-> build_nudges(hour, wg)]

InitRules ==
  /\ AtRest
  /\ fx \in { RulesAt(0, b, l, g, NoGap) :
               b \in BaselineSet, l \in LatestSet, g \in EngineGapSet }

\* The next hour of the day, with any of the worker's inputs.
RulesNextHour ==
  /\ fx.hour + 1 < 24
  /\ \E wg \in WorkerGapSet :
       fx' = RulesAt(fx.hour + 1, fx.baselines, fx.latest, fx.gaps, wg)
  /\ UNCHANGED wvars

SpecRules == InitRules /\ [][RulesNextHour]_vars

\* C15: for every local time, gap set and day-signal input the rule engine
\* returns a non-empty candidate set: rules_engine falls back to 'breathe',
\* the worker's build_nudges to 'breathing' or 'on_track'.
C15_CandidatesNeverEmpty ==
  fx.fn = "rules" =>
    /\ fx.eligible # <<>>
    /\ fx.matched = <<>> => fx.eligible = <<"breathe">>
    /\ fx.nudges # <<>> /\ Len(fx.nudges) <= 3
    /\ fx.wgaps = NoGap => fx.nudges[1].type \in {"breathing", "on_track"}

\* Both engines were asked at a time and with inputs no rule matches.
C15_Witness ==
  /\ fx.fn = "rules" /\ fx.hour = 23
  /\ fx.matched = <<>> /\ fx.eligible = <<"breathe">>
  /\ fx.wgaps = NoGap /\ fx.nudges[1].type = "on_track"

\* ------------------------------------------------------ the nudge selector
\* bandit_ucb1 starts its search below every score it expects to see.
BEST_UCB_FLOOR == -1000000000
\* The exploration constant c = 1.2, in tenths.
UCB_C_TENTHS == 12

ArmTypes == {"hydrate", "move", "breathe"}
NoArm == "None"

\* math.log of 1..12, in thousandths.
Ln1000 == <<0, 693, 1099, 1386, 1609, 1792, 1946, 2079, 2197, 2303, 2398, 2485>>
\* math.sqrt, rounded down.
isqrt(x) == CHOOSE r \in 0..1600 : r * r <= x /\ x < (r + 1) * (r + 1)

AtLeastOne(n) == IF n < 1 THEN 1 ELSE n

\* The score of an arm, mean + c * sqrt(log(total) / n), as whole units and
\* thousandths, rounded down.
ucb(reward, n, total) ==
  LET frac == ((reward % n) * 1000) \div n
      bonus == (UCB_C_TENTHS * isqrt((Ln1000[total] * 1000) \div n)) \div 10
  IN  <<(reward \div n) + ((frac + bonus) \div 1000), (frac + bonus) % 1000>>

ScoreGreater(a, b) == a[1] > b[1] \/ (a[1] = b[1] /\ a[2] > b[2])

RECURSIVE ucb_total(_, _)
ucb_total(arms, counts) ==
  IF arms = <<>> THEN 0
  ELSE AtLeastOne(counts[Head(arms)]) + ucb_total(Tail(arms), counts)

\* The loop of bandit_ucb1 over the arms, in the order of the dictionary.
RECURSIVE ucb_loop(_, _, _, _, _, _)
ucb_loop(arms, counts, rewards, total, best, best_ucb) ==
  IF arms = <<>> THEN best
  ELSE LET arm == Head(arms)
           score == ucb(rewards[arm], AtLeastOne(counts[arm]), total)
       IN  IF ScoreGreater(score, best_ucb)
             THEN ucb_loop(Tail(arms), counts, rewards, total, arm, score)
             ELSE ucb_loop(Tail(arms), counts, rewards, total, best, best_ucb)

\* nudge_engine.py bandit_ucb1; arms are the keys of counts in their order.
bandit_ucb1(arms, counts, rewards) ==
  ucb_loop(arms, counts, rewards, AtLeastOne(ucb_total(arms, counts)),
           NoArm, <<BEST_UCB_FLOOR, 0>>)

SeqRange(q) == { q[i] : i \in 1..Len(q) }

\* nudge_engine.py select_nudge: the values it can return; random.choice is
\* any member of the candidates.
select_nudge(candidates, counts, rewards) ==
  IF \A k \in SeqRange(candidates) : counts[k] = 0
    THEN SeqRange(candidates)
    ELSE { bandit_ucb1(candidates, counts, rewards) }

\* The inputs the selector is probed with.
CandidateLists ==
  { <<"hydrate">>, <<"breathe">>, <<"hydrate", "move">>, <<"move", "hydrate">>,
    <<"hydrate", "move", "breathe">> }
CountValues == {0, 1, 4}
RewardValues == {0, 3, -2000000000}

SelectAt(c, counts, rewards, chosen) ==
  [fn |-> "select", candidates |-> c, counts |-> counts, rewards |-> rewards,
   chosen |-> chosen]

InitSelect ==
  /\ AtRest
  /\ fx \in { SelectAt(c, cn, rw, "") : c \in CandidateLists,
               cn \in [ArmTypes -> CountValues],
               rw \in [ArmTypes -> RewardValues] }

SelectNudge ==
  /\ fx.chosen = ""
  /\ \E t \in select_nudge(fx.candidates, fx.counts, fx.rewards) :
       fx' = SelectAt(fx.candidates, fx.counts, fx.rewards, t)
  /\ UNCHANGED wvars

SpecSelect == InitSelect /\ [][SelectNudge]_vars

\* C16: for every non-empty eligible set and every history of counts and
\* rewards, select_nudge returns a member of the eligible set, also when
\* every eligible type has zero history.
C16_SelectReturnsMember ==
  (fx.fn = "select" /\ fx.chosen # "") => fx.chosen \in SeqRange(fx.candidates)

\* -------------------------------------------------------- the gap calculator
\* A faulty variant of deficit: the difference is not floored at zero.
deficit_signed(expected, actual) == expected - actual

\* max(0, expected - actual), the form of every deficit in compute_gaps and
\* in build_nudges.
deficit(expected, actual) ==
  IF expected - actual > 0 THEN expected - actual ELSE 0

\* Python's int() of the quotient x / d: rounded towards zero.
IntOf(x, d) == IF x >= 0 THEN x \div d ELSE -((-x) \div d)

\* nudge_engine.py compute_gaps: a gap is present only when both the goal and
\* the metric are.
compute_gaps(metrics, goals) ==
  [steps_gap |->
     IF goals.steps.has /\ metrics.steps.has
       THEN Some(deficit(goals.steps.v, metrics.steps.v)) ELSE None,
   gap_ml |->
     IF goals.water_ml.has /\ metrics.water_ml.has
       THEN Some(deficit(goals.water_ml.v, metrics.water_ml.v)) ELSE None,
   sleep_gap |->
     IF goals.sleep_minutes.has /\ metrics.sleep_minutes.has
       THEN Some(deficit(goals.sleep_minutes.v, metrics.sleep_minutes.v))
       ELSE None]

\* build_nudges: the goal of the preferences, or the default when it is
\* missing or zero.
GoalOr(g, default) == IF g.has /\ g.v # 0 THEN g.v ELSE default
\* build_nudges: a metric of today, or zero.
MetricOr0(m) == IF m.has THEN m.v ELSE 0

\* build_nudges: expected calories at the pace fraction (in hundredths).
exp_kcal(kcal_goal, frac100) == IntOf(kcal_goal * frac100, 100)
\* build_nudges: expected steps, the goal times day_frac * 1.05 clamped to
\* [0, 1]; t is the local time in minutes, day_frac * 1.05 = 7 t / 9600.
exp_steps(steps_goal, t) ==
  IntOf(steps_goal * (IF 7 * t > 9600 THEN 9600 ELSE 7 * t), 9600)
\* build_nudges: expected water, one tenth of the goal per 90-minute block
\* between 9 and 19.
exp_water(water_goal, t) ==
  IF 9 <= HourOf(t) /\ HourOf(t) <= 19
    THEN LET blocks == (t - 9 * 60) \div 90
         IN  IntOf((IF blocks > 10 THEN 10 ELSE blocks) * water_goal, 10)
    ELSE 0

\* The deficits build_nudges derives at local time t.
worker_deficits(t, goals, metrics, frac100) ==
  [kcal_def |-> deficit(exp_kcal(GoalOr(goals.calories, 2000), frac100),
                         MetricOr0(metrics.calories)),
   step_def |-> deficit(exp_steps(GoalOr(goals.steps, 8000), t),
                         MetricOr0(metrics.steps)),
   water_def |-> deficit(exp_water(GoalOr(goals.water_ml, 2000), t),
                          MetricOr0(metrics.water_ml))]

\* The goals and the metrics of the day the calculator is probed with.
GoalProbes ==
  { [calories |-> None, steps |-> None, water_ml |-> None,
     sleep_minutes |-> None],
    [calories |-> Some(1800), steps |-> Some(6000), water_ml |-> Some(1500),
     sleep_minutes |-> Some(480)],
    [calories |-> Some(-500), steps |-> Some(-100), water_ml |-> Some(-250),
     sleep_minutes |-> Some(-60)] }
MetricProbes ==
  { [calories |-> None, steps |-> None, water_ml |-> None,
     sleep_minutes |-> None],
    [calories |-> Some(400), steps |-> Some(1000), water_ml |-> Some(250),
     sleep_minutes |-> Some(300)],
    [calories |-> Some(3000), steps |-> Some(20000), water_ml |-> Some(5000),
     sleep_minutes |-> Some(600)],
    [calories |-> Some(-50), steps |-> Some(-10), water_ml |-> Some(-100),
     sleep_minutes |-> Some(-5)] }
FracProbes == {0, 45, 100}
GapProbeStep == 95

GapsAt(t, goals, metrics, frac100) ==
  [fn |-> "gaps", t |-> t, goals |-> goals, metrics |-> metrics,
   frac100 |-> frac100,
   engine |-> compute_gaps(metrics, goals),
   worker |-> worker_deficits(t, goals, metrics, frac100)]

InitGaps ==
  /\ AtRest
  /\ fx \in { GapsAt(0, g, m, f) :
               g \in GoalProbes, m \in MetricProbes, f \in FracProbes }

\* Later the same day, with any metrics.
GapsLater ==
  /\ fx.t + GapProbeStep < 24 * 60
  /\ \E m \in MetricProbes :
       fx' = GapsAt(fx.t + GapProbeStep, fx.goals, m, fx.frac100)
  /\ UNCHANGED wvars

SpecGaps == InitGaps /\ [][GapsLater]_vars

\* C17: for all goals and all actual values, also actuals above the goal or
\* above the expected pace, every deficit of the gap calculation (steps,
\* water, sleep, calories) is greater than or equal to zero.
C17_DeficitsNeverNegative ==
  fx.fn = "gaps" =>
    /\ \A k \in {"steps_gap", "gap_ml", "sleep_gap"} :
         fx.engine[k].has => fx.engine[k].v >= 0
    /\ \A k \in {"kcal_def", "step_def", "water_def"} : fx.worker[k] >= 0

\* The actuals are above a positive goal and above a positive expected pace.
C17_Witness ==
  /\ fx.fn = "gaps"
  /\ fx.goals.steps.has /\ fx.goals.steps.v > 0
  /\ fx.metrics.steps.v > fx.goals.steps.v
  /\ fx.engine.steps_gap = Some(0)
  /\ exp_steps(fx.goals.steps.v, fx.t) > 0
  /\ exp_water(fx.goals.water_ml.v, fx.t) > 0
  /\ exp_kcal(fx.goals.calories.v, fx.frac100) > 0
  /\ fx.worker = [kcal_def |-> 0, step_def |-> 0, water_def |-> 0]

\* ------------------------------------------------------- the pace profile
\* Times of day are in half minutes, so that the median of two meal times
\* (each a whole minute) is exact.  A fraction is a numerator over the
\* denominator den of its profile.
HalfMin(h, m) == 2 * (60 * h + m)

\* Stable insertion sort of pairs: by the first component, or by the whole
\* pair as Python compares tuples.
Before(a, b, whole) == a[1] < b[1] \/ (whole /\ a[1] = b[1] /\ a[2] < b[2])

RECURSIVE InsertSorted(_, _, _)
InsertSorted(x, q, whole) ==
  IF q = <<>> THEN <<x>>
  ELSE IF Before(x, Head(q), whole) THEN <<x>> \o q
  ELSE <<Head(q)>> \o InsertSorted(x, Tail(q), whole)

RECURSIVE sorted(_, _)
sorted(q, whole) ==
  IF q = <<>> THEN <<>>
  ELSE InsertSorted(q[Len(q)], sorted(SubSeq(q, 1, Len(q) - 1), whole), whole)

\* nudge_worker.py median of a non-empty list of meal times.
median(vals) ==
  LET s == sorted([i \in 1..Len(vals) |-> <<vals[i], 0>>], FALSE)
      n == Len(s)
  IN  IF n % 2 = 1 THEN s[(n \div 2) + 1][1]
      ELSE (s[n \div 2][1] + s[(n \div 2) + 1][1]) \div 2

MealBuckets == <<"breakfast", "lunch", "snacks", "dinner">>
\* The hour of a bucket nobody logged a meal in.
BucketDefault ==
  [breakfast |-> HalfMin(9, 30), lunch |-> HalfMin(13, 0),
   snacks |-> HalfMin(16, 0), dinner |-> HalfMin(19, 30)]
\* The curves used when the week has no meal, in hundredths: the worker's
\* and the service's.
DefaultCurve ==
  [worker |-> <<<<HalfMin(10, 30), 25>>, <<HalfMin(13, 30), 60>>,
                <<HalfMin(17, 0), 75>>, <<HalfMin(20, 0), 95>>>>,
   service |-> <<<<HalfMin(10, 30), 25>>, <<HalfMin(14, 0), 60>>,
                 <<HalfMin(17, 0), 70>>, <<HalfMin(20, 0), 95>>>>]

\* Unrecognized and missing meal types go to snacks.
BucketOf(meal_type) ==
  IF meal_type \in SeqRange(MealBuckets) THEN meal_type ELSE "snacks"

RECURSIVE kcal_in(_, _)
kcal_in(meals, k) ==
  IF meals = <<>> THEN 0
  ELSE (IF k = "" \/ BucketOf(Head(meals).meal_type) = k
          THEN Head(meals).calories ELSE 0) + kcal_in(Tail(meals), k)

TimesIn(meals, k) ==
  SelectSeq([i \in 1..Len(meals) |->
               <<2 * meals[i].t, BucketOf(meals[i].meal_type) = k>>],
            LAMBDA p : p[2])

RECURSIVE accumulate(_, _, _)
accumulate(points, cum, den) ==
  IF points = <<>> THEN <<>>
  ELSE LET c == IF cum + Head(points)[2] > den THEN den
                ELSE cum + Head(points)[2]
       IN  <<<<Head(points)[1], c>>>> \o accumulate(Tail(points), c, den)

\* rolling_7d_profile / _rolling_7d_profile: the anchors and the denominator
\* of their fractions.
rolling_7d_profile(meals, impl) ==
  IF meals = <<>> THEN [anchors |-> DefaultCurve[impl], den |-> 100]
  ELSE LET total == kcal_in(meals, "")
           den == IF total < 1 THEN 1 ELSE total
           point(k) ==
             <<IF TimesIn(meals, k) # <<>>
                 THEN median([i \in 1..Len(TimesIn(meals, k)) |->
                                TimesIn(meals, k)[i][1]])
                 ELSE BucketDefault[k],
               kcal_in(meals, k)>>
           points == sorted([i \in 1..4 |-> point(MealBuckets[i])], FALSE)
       IN  [anchors |-> accumulate(points, 0, den), den |-> den]

RECURSIVE last_passed(_, _, _)
last_passed(h, anchors, frac) ==
  IF anchors = <<>> THEN frac
  ELSE IF h >= Head(anchors)[1]
         THEN last_passed(h, Tail(anchors), Head(anchors)[2])
         ELSE frac

\* expected_fraction / _expected_fraction at the local time h (half minutes):
\* the numerator of the fraction, clamped to [0, 1].
expected_fraction(h, profile) ==
  LET frac == last_passed(h, sorted(profile.anchors, TRUE), 0)
  IN  IF frac < 0 THEN 0 ELSE IF frac > profile.den THEN profile.den ELSE frac

\* The meals of the last seven days the profile is probed with: t is the
\* local time of the meal in minutes.
MealSet ==
  { [meal_type |-> mt, calories |-> c, t |-> t] :
      mt \in {"breakfast", "lunch", "brunch"}, c \in {0, 500, -200},
      t \in {8 * 60, 13 * 60 + 15} }
MealHistories ==
  {<<>>} \cup { <<m>> : m \in MealSet } \cup { <<m, n>> : m, n \in MealSet }
PaceProbeStep == 90

PaceAt(meals, impl, t, prev) ==
  [fn |-> "pace", meals |-> meals, impl |-> impl, t |-> t,
   den |-> rolling_7d_profile(meals, impl).den,
   prev |-> prev,
   frac |-> expected_fraction(2 * t, rolling_7d_profile(meals, impl))]

InitPace ==
  /\ AtRest
  /\ fx \in { PaceAt(ms, impl, 0, 0) :
               ms \in MealHistories, impl \in {"worker", "service"} }

\* The fraction is asked again later the same day; prev keeps the answer
\* before.
PaceLater ==
  /\ fx.t + PaceProbeStep < 24 * 60
  /\ fx' = PaceAt(fx.meals, fx.impl, fx.t + PaceProbeStep, fx.frac)
  /\ UNCHANGED wvars

SpecPace == InitPace /\ [][PaceLater]_vars

\* C18: for every 7-day meal history, the empty one included, the expected
\* cumulative fraction of the pace profile is non-decreasing in the local
\* hour of the day and lies in [0, 1].
C18_FractionMonotoneInUnit ==
  fx.fn = "pace" => /\ fx.prev <= fx.frac
                    /\ 0 <= fx.frac /\ fx.frac <= fx.den

\* ------------------------------------------------------------ the cadence
Cadences == {"smart", "hourly", "3_per_day"}

\* nudge_engine.py should_nudge; times in minutes, last_sent_at may be absent.
should_nudge(t, last_sent_at, cadence) ==
  IF cadence = "hourly"
    THEN ~last_sent_at.has \/ t - last_sent_at.v >= 60
  ELSE IF cadence = "3_per_day"
    THEN ~last_sent_at.has \/ t - last_sent_at.v >= 4 * 60
  ELSE TRUE

\* The worker started over users on telegram who chose any of the cadences.
InitCadence ==
  /\ now \in StartTimes
  /\ ticks = 0
  /\ prefs \in { [u \in Users |->
                    [Pref("telegram", TRUE) EXCEPT !.nudge_cadence = c[u]]] :
                  c \in [Users -> Cadences] }
  /\ last_nudge_hash = [u \in Users |-> NoHash]
  /\ gaps = [u \in Users |-> NoGap]
  /\ log = <<>>
  /\ events = <<>>
  /\ batch = <<>>
  /\ todo = <<>>
  /\ crashed = FALSE
  /\ sent = <<>>
  /\ last = NoStep
  /\ disturb = 0
  /\ fx = NoFx
  /\ cyc = [w \in Workers |-> NoCycle]

SpecCadence == InitCadence /\ [][NextCycle]_vars

\* C19: periodic dispatches respect the cadence of the user: with 'hourly'
\* two consecutive dispatches to a user are at least one hour apart, with
\* '3_per_day' at least four hours; every dispatch after another is one
\* should_nudge allows.
C19_DispatchesRespectCadence ==
  \A u \in Users : \A i, j \in SentTo(u) :
    (i < j /\ \A k \in SentTo(u) : ~(i < k /\ k < j)) =>
      should_nudge(sent[j].ts, Some(sent[i].ts), prefs[u].nudge_cadence)

\* ------------------------------------------------------ the calendar gate
\* What the fetch of the feed can end in.
FetchOutcomes == {"timeout", "http_error", "unparsable", "parsed"}

\* A vevent of the feed: its start and end in minutes, or a component
\* without dtstart / dtend.
Vevent(s, e) == [ok |-> TRUE, s |-> s, e |-> e]
BrokenVevent == [ok |-> FALSE, s |-> 0, e |-> 0]

\* The loop over cal.walk('vevent'): the first event around t answers busy,
\* a component it cannot read raises.
RECURSIVE walk(_, _)
walk(vevents, t) ==
  IF vevents = <<>> THEN [busy |-> FALSE, raised |-> FALSE]
  ELSE IF ~Head(vevents).ok THEN [busy |-> FALSE, raised |-> TRUE]
  ELSE IF Head(vevents).s <= t /\ t <= Head(vevents).e
         THEN [busy |-> TRUE, raised |-> FALSE]
  ELSE walk(Tail(vevents), t)

\* The body of the try block of busy_by_calendar.
fetch_and_walk(fetch, vevents, t) ==
  IF fetch = "parsed" THEN walk(vevents, t)
  ELSE [busy |-> FALSE, raised |-> TRUE]

\* A faulty variant of busy_by_calendar: the try block has no except.
busy_by_calendar_unguarded(ics_url, fetch, vevents, t) ==
  IF ~ics_url THEN [busy |-> FALSE, raised |-> FALSE]
  ELSE fetch_and_walk(fetch, vevents, t)

\* busy_by_calendar: ics_url says whether a feed is configured.
busy_by_calendar(ics_url, fetch, vevents, t) ==
  IF ~ics_url THEN [busy |-> FALSE, raised |-> FALSE]
  ELSE IF fetch_and_walk(fetch, vevents, t).raised
         THEN [busy |-> FALSE, raised |-> FALSE]
  ELSE fetch_and_walk(fetch, vevents, t)

\* The feeds and the local times the gate is probed with.
VeventSet == { Vevent(HM(10, 0), HM(11, 0)), Vevent(HM(10, 30), HM(12, 0)),
               BrokenVevent }
FeedSet ==
  {<<>>} \cup { <<a>> : a \in VeventSet } \cup { <<a, b>> : a, b \in VeventSet }
CalendarTimes == { HM(9, 59), HM(10, 0), HM(11, 0), HM(12, 1) }

CalendarAt(ics_url, fetch, vevents, t, asked) ==
  [fn |-> "calendar", ics_url |-> ics_url, fetch |-> fetch,
   vevents |-> vevents, t |-> t, asked |-> asked,
   answer |-> IF asked THEN busy_by_calendar(ics_url, fetch, vevents, t)
              ELSE [busy |-> FALSE, raised |-> FALSE]]

InitCalendar ==
  /\ AtRest
  /\ fx \in { CalendarAt(url, f, ev, t, FALSE) :
               url \in BOOLEAN, f \in FetchOutcomes, ev \in FeedSet,
               t \in CalendarTimes }

\* process_user / handle_event ask the gate.
AskCalendar ==
  /\ ~fx.asked
  /\ fx' = CalendarAt(fx.ics_url, fx.fetch, fx.vevents, fx.t, TRUE)
  /\ UNCHANGED wvars

SpecCalendar == InitCalendar /\ [][AskCalendar]_vars

\* The feed is missing, or its fetch or its reading fails.
CalendarFails ==
  \/ ~fx.ics_url
  \/ fx.fetch # "parsed"
  \/ fetch_and_walk(fx.fetch, fx.vevents, fx.t).raised

\* C20: the calendar gate fails open: when no feed is configured, or the
\* fetch times out, returns an HTTP error, or the document can't be parsed,
\* busy_by_calendar answers not-busy and never raises.
C20_CalendarFailsOpen ==
  (fx.fn = "calendar" /\ fx.asked) =>
    /\ ~fx.answer.raised
    /\ CalendarFails => ~fx.answer.busy

\* The gate was asked about a feed whose fetch timed out although an event
\* of the feed is around the time asked.
C20_Witness ==
  /\ fx.fn = "calendar" /\ fx.asked
  /\ fx.ics_url /\ fx.fetch = "timeout"
  /\ walk(fx.vevents, fx.t).busy
  /\ fx.answer = [busy |-> FALSE, raised |-> FALSE]

\* ------------------------------------------------- reading the user's data
\* A text value of a row: absent (NULL or the row is missing) or present.
\* Its text is kept as the fields between the colons, each one a number or
\* not.
Num(n) == [num |-> TRUE, v |-> n]
NotNum == [num |-> FALSE, v |-> 0]
Text(fields) == [has |-> TRUE, fields |-> fields]
NoText == [has |-> FALSE, fields |-> <<>>]

\* (pf.get(key) or default): the fields of the text, or of the default.
TextOr(s, default) == IF s.has /\ s.fields # <<>> THEN s.fields ELSE default

\* hh, mm = map(int, s.split(":")) succeeds.
SplitsToTwoInts(fields) == Len(fields) = 2 /\ fields[1].num /\ fields[2].num

\* is_quiet_hours: the hours and minutes after the try block; when either
\* text does not split into two integers all four are the defaults.
quiet_fields(pf) ==
  LET qs == TextOr(pf.quiet_start, <<Num(22), Num(0)>>)
      qe == TextOr(pf.quiet_end, <<Num(7), Num(0)>>)
  IN  IF SplitsToTwoInts(qs) /\ SplitsToTwoInts(qe)
        THEN <<qs[1].v, qs[2].v, qe[1].v, qe[2].v>>
        ELSE <<22, 0, 7, 0>>

\* now_l.replace(hour=h, minute=m) raises ValueError outside 0..23 / 0..59.
ReplaceRaises(h, m) == ~(h \in 0..23 /\ m \in 0..59)

\* is_quiet_hours(uid, now_l, pf) on the row as stored: whether it raises,
\* the window it compares against and its answer.
is_quiet_hours_of(pf, tod) ==
  LET q == quiet_fields(pf)
      raised == ReplaceRaises(q[1], q[2]) \/ ReplaceRaises(q[3], q[4])
  IN  [raised |-> raised, window |-> q,
       quiet |-> ~raised /\ is_quiet_hours(tod, HM(q[1], q[2]), HM(q[3], q[4]))]

\* user_tz: the zone of the row when ZoneInfo knows it, else the default.
KnownZones == {"America/New_York", "Europe/Paris"}
user_tz(pf) ==
  IF pf.tz.has /\ pf.tz.name \in KnownZones THEN pf.tz.name
  ELSE "America/New_York"

\* build_nudges: the four goals a cycle compares against.
goals_of(pf) ==
  [kcal_goal |-> GoalOr(pf.daily_calorie_goal, 2000),
   steps_goal |-> GoalOr(pf.daily_step_goal, 8000),
   water_goal |-> GoalOr(pf.daily_water_ml, 2000),
   sleep_goal |-> GoalOr(pf.sleep_goal_min, 420)]

\* prefs(uid) when hw_preferences has no row for the user: {}.
NoRow ==
  [tz |-> [has |-> FALSE, name |-> ""], quiet_start |-> NoText,
   quiet_end |-> NoText, daily_calorie_goal |-> None,
   daily_step_goal |-> None, daily_water_ml |-> None, sleep_goal_min |-> None]

\* The rows the readers are probed with.
QuietTexts ==
  { NoText, Text(<<>>), Text(<<Num(21), Num(30)>>), Text(<<NotNum>>),
    Text(<<Num(22), Num(0), Num(0)>>), Text(<<Num(25), Num(0)>>),
    Text(<<Num(22), Num(60)>>) }
ZoneTexts ==
  { [has |-> FALSE, name |-> ""], [has |-> TRUE, name |-> "Europe/Paris"],
    [has |-> TRUE, name |-> "Mars/Phobos"] }
RowSet ==
  {NoRow} \cup
  { [NoRow EXCEPT !.tz = z, !.quiet_start = qs, !.quiet_end = qe] :
      z \in ZoneTexts, qs \in QuietTexts, qe \in {NoText, Text(<<Num(6), Num(0)>>)} }

DataAt(pf, metrics, tod, path, outcome) ==
  [fn |-> "data", pf |-> pf, metrics |-> metrics, tod |-> tod,
   path |-> path, outcome |-> outcome,
   tz |-> user_tz(pf), window |-> is_quiet_hours_of(pf, tod).window,
   goals |-> goals_of(pf),
   steps |-> MetricOr0(metrics)]

InitData ==
  /\ AtRest
  /\ fx \in { DataAt(pf, m, tod, path, "") :
               pf \in RowSet, m \in {None, Some(1200)},
               tod \in {HM(14, 0)}, path \in {"periodic", "drain"} }

\* process_user reads the user's data; what it raises is caught and logged
\* by main_loop, and the cycle of the user ends there.
ProcessUserData ==
  /\ fx.fn = "data" /\ fx.path = "periodic" /\ fx.outcome = ""
  /\ fx' = [fx EXCEPT !.outcome =
              IF is_quiet_hours_of(fx.pf, fx.tod).raised THEN "failed"
              ELSE "completed"]
  /\ UNCHANGED wvars

\* process_events reads the user's data of an event; nothing catches what
\* it raises, main_loop dies.
DrainData ==
  /\ fx.fn = "data" /\ fx.path = "drain" /\ fx.outcome = ""
  /\ fx' = [fx EXCEPT !.outcome =
              IF is_quiet_hours_of(fx.pf, fx.tod).raised THEN "crashed"
              ELSE "completed"]
  /\ UNCHANGED wvars

SpecData == InitData /\ [][ProcessUserData \/ DrainData]_vars

\* C21: missing or malformed user data never makes a cycle fail: with no
\* preferences row, no metrics row, a missing or invalid timezone, or missing
\* or malformed quiet-hours strings, the periodic cycle and the event drain
\* complete, using the defaults where the data is missing.
C21_BadDataNeverFails ==
  (fx.fn = "data" /\ fx.outcome # "") =>
    /\ fx.outcome = "completed"
    /\ fx.pf = NoRow =>
         /\ fx.tz = "America/New_York"
         /\ fx.window = <<22, 0, 7, 0>>
         /\ fx.goals = [kcal_goal |-> 2000, steps_goal |-> 8000,
                        water_goal |-> 2000, sleep_goal |-> 420]

\* ------------------------------------------------- the preference editor
\* pages/07_Preferences.py Save: the goals column of the payload, from the
\* widgets (steps, water in tenths of a litre, sleep in half hours, calories).
goals_json(steps_goal, water_tenths, sleep_halves, calorie_goal) ==
  [steps |-> steps_goal, water_ml |-> water_tenths * 100,
   sleep_minutes |-> sleep_halves * 30, calories |-> calorie_goal]

\* The row of hw_preferences after the update or insert of the payload: the
\* payload has no daily_calorie_goal, daily_step_goal, daily_water_ml or
\* sleep_goal_min, those columns stay as they were.
save_preferences(row, g) == [row EXCEPT !.goals = Some(g)]

\* The row before the editor was ever used.
UnsavedRow ==
  [goals |-> None, daily_calorie_goal |-> None, daily_step_goal |-> None,
   daily_water_ml |-> None, sleep_goal_min |-> None]

\* What the widgets of the editor are set to.
StepsWidget == {1000, 6000, 8000, 20000}
WaterWidget == {5, 20, 25}
SleepWidget == {8, 14, 16}
CalorieWidget == {1000, 2000, 2500}

GoalsAt(row, cycle) == [fn |-> "goals", row |-> row, cycle |-> cycle]

InitGoals == AtRest /\ fx = GoalsAt(UnsavedRow, None)

\* The user presses Save.
SavePreferences ==
  /\ fx.fn = "goals"
  /\ \E s \in StepsWidget, w \in WaterWidget, sl \in SleepWidget,
        c \in CalorieWidget :
       fx' = GoalsAt(save_preferences(fx.row, goals_json(s, w, sl, c)), None)
  /\ UNCHANGED wvars

\* A decision cycle of the worker reads its goals from the row.
CycleReadsGoals ==
  /\ fx.fn = "goals" /\ ~fx.cycle.has
  /\ fx' = GoalsAt(fx.row, Some(goals_of(fx.row)))
  /\ UNCHANGED wvars

SpecGoals == InitGoals /\ [][SavePreferences \/ CycleReadsGoals]_vars

\* C22: the step, water, sleep and calorie goals a decision cycle compares
\* against are the ones the preference editor stored for the user; a default
\* is used only for a goal that is absent.
C22_CycleUsesSavedGoals ==
  (fx.fn = "goals" /\ fx.cycle.has) =>
    fx.cycle.v =
      IF fx.row.goals.has
        THEN [kcal_goal |-> fx.row.goals.v.calories,
              steps_goal |-> fx.row.goals.v.steps,
              water_goal |-> fx.row.goals.v.water_ml,
              sleep_goal |-> fx.row.goals.v.sleep_minutes]
        ELSE [kcal_goal |-> 2000, steps_goal |-> 8000, water_goal |-> 2000,
              sleep_goal |-> 420]

\* ------------------------------------------------------ the metric samples
MetricFields == {"steps", "water_ml", "sleep_minutes", "mood"}

\* A row of hw_metrics: the fields its writer did not set are NULL.
Sample(source, steps, water_ml, sleep_minutes, mood) ==
  [source |-> source, steps |-> steps, water_ml |-> water_ml,
   sleep_minutes |-> sleep_minutes, mood |-> mood]

\* pages/06_Log_Metrics.py: the form writes every field.
ManualRows ==
  { Sample("manual", Some(9000), Some(1500), Some(400), Some(4)),
    Sample("manual", Some(3000), Some(500), Some(450), Some(2)) }
\* telegram_bot/bot.py save_metrics: no water_ml.
BotRows ==
  { Sample("bot", Some(5000), None, Some(380), Some(3)),
    Sample("bot", None, None, None, Some(1)) }
\* services/nutrition_llm.py upsert_today_totals: calories only.
AggregateRow == Sample("aggregate", None, None, None, None)

\* The form upserts on (uid, log_date, source): the manual row of the day is
\* replaced and carries the new timestamp.
upsert_manual(samples, row) ==
  SelectSeq(samples, LAMBDA r : r.source # "manual") \o <<row>>

\* latest_metrics_today: the newest row of the day, or {}.
latest_metrics_today(samples) ==
  IF samples = <<>> THEN Sample("", None, None, None, None)
  ELSE samples[Len(samples)]

\* build_nudges: int(latest.get(field) or 0) for each field it uses.
metrics_used(samples) ==
  [f \in MetricFields |-> MetricOr0(latest_metrics_today(samples)[f])]

MetricsAt(samples, cycle) ==
  [fn |-> "metrics", samples |-> samples, cycle |-> cycle]

InitMetrics == AtRest /\ fx = MetricsAt(<<>>, None)

\* The user saves the form of the day.
LogManual ==
  /\ fx.fn = "metrics" /\ Len(fx.samples) < MaxSamples
  /\ \E row \in ManualRows :
       fx' = MetricsAt(upsert_manual(fx.samples, row), None)
  /\ UNCHANGED wvars

\* The check-in of the bot, or the totals written after a meal was logged.
InsertSample ==
  /\ fx.fn = "metrics" /\ Len(fx.samples) < MaxSamples
  /\ \E row \in BotRows \cup {AggregateRow} :
       fx' = MetricsAt(Append(fx.samples, row), None)
  /\ UNCHANGED wvars

\* A decision cycle reads the metrics of the day.
CycleReadsMetrics ==
  /\ fx.fn = "metrics" /\ ~fx.cycle.has
  /\ fx' = MetricsAt(fx.samples, Some(metrics_used(fx.samples)))
  /\ UNCHANGED wvars

SpecMetrics ==
  InitMetrics /\ [][LogManual \/ InsertSample \/ CycleReadsMetrics]_vars

\* The value of the newest sample that carries the field, 0 without one.
LatestCarrying(samples, f) ==
  LET carry == { i \in 1..Len(samples) : samples[i][f].has }
  IN  IF carry = {} THEN 0
      ELSE samples[CHOOSE i \in carry : \A j \in carry : j <= i][f].v

\* C23: for each metric field (steps, water_ml, sleep_minutes, mood) the
\* value a cycle uses is that of the latest sample of the user's day that
\* carries the field, for any sequence of samples written by any source.
C23_LastWriteWinsPerField ==
  (fx.fn = "metrics" /\ fx.cycle.has) =>
    \A f \in MetricFields : fx.cycle.v[f] = LatestCarrying(fx.samples, f)

\* C24: a periodic cycle dispatches at most one nudge per user per tick,
\* through exactly one channel, the user's preferred one, even when several
\* candidates are eligible.
C24_OneNudgeOneChannel ==
  \A u \in Users :
    /\ \A i, j \in SentTo(u) : sent[i].ts = sent[j].ts => i = j
    /\ \A i \in SentTo(u) : sent[i].channel = Channel(u)

\* A cycle with two eligible candidates has just dispatched.
C24_Witness ==
  /\ last.op = "user" /\ last.result = "sent" /\ Len(last.nudges) >= 2
  /\ \E i \in SentTo(last.uid) :
       sent[i].ts = now /\ sent[i].type = last.nudges[1].type

\* ------------------------------------------------------- a long event queue
\* More unprocessed rows than one drain selects.
QueueLen == DRAIN_LIMIT + 1

\* The worker is started on a queue that filled up while it was down: the
\* saved forms of one user on telegram, one per minute, the newest a minute
\* old.
InitDrain ==
  /\ now \in StartTimes
  /\ ticks = 0
  /\ prefs = [u \in Users |-> Pref("telegram", TRUE)]
  /\ last_nudge_hash = [u \in Users |-> NoHash]
  /\ gaps = [u \in Users |-> NoGap]
  /\ log = <<>>
  /\ events \in { [i \in 1..QueueLen |->
                     e @@ [uid |-> u, ts |-> now - QueueLen + i - 1,
                           processed |-> FALSE]] :
                   u \in Movers, e \in { x \in EventSet : x.kind = "metrics_saved" } }
  /\ batch = <<>>
  /\ todo = <<>>
  /\ crashed = FALSE
  /\ sent = <<>>
  /\ last = NoStep
  /\ disturb = 0
  /\ fx = NoFx
  /\ cyc = [w \in Workers |-> NoCycle]

NextDrain ==
  \/ \E d \in Delays : Tick(d)
  \/ \E busy, send_ok, log_ok, upd_ok \in BOOLEAN :
       HandleEvent(busy, send_ok, log_ok, upd_ok)
  \/ \E busy, send_ok, log_ok, upd_ok \in BOOLEAN :
       SweepUser(busy, send_ok, log_ok, upd_ok)
  \/ Restart

SpecDrain == InitDrain /\ [][NextDrain]_vars

\* The rows a drain has selected and not yet handled are the oldest
\* unprocessed ones, oldest first.
BatchOldestFirst ==
  /\ \A i, j \in 1..Len(batch) : i < j => events[batch[i]].ts < events[batch[j]].ts
  /\ \A i \in 1..Len(batch) : ~events[batch[i]].processed
  /\ batch # <<>> =>
       \A id \in 1..Len(events) :
         events[id].ts < events[Head(batch)].ts => events[id].processed

\* C25: each drain of the event queue handles the unprocessed events in
\* ascending timestamp order, at most 50 per drain, and marks each one
\* processed after handling it, before it moves to the next.
C25_DrainInOrderAndMarks ==
  [][/\ Len(batch') <= DRAIN_LIMIT
     /\ BatchOldestFirst'
     /\ last'.op = "tick" =>
          \A id \in 1..Len(events) :
            (~events[id].processed /\ \A i \in 1..Len(batch') : batch'[i] # id)
              => Len(batch') = DRAIN_LIMIT
     /\ last'.op = "event" =>
          /\ batch # <<>> /\ last'.ev = Head(batch)
          /\ batch' # <<>> => (batch' = Tail(batch) /\ events'[last'.ev].processed)
    ]_vars

\* A drain has handled its 50 rows and left the row after them for the next
\* one.
C25_Witness ==
  /\ last.op = "event" /\ last.ev = DRAIN_LIMIT /\ batch = <<>> /\ ~crashed
  /\ \A id \in 1..DRAIN_LIMIT : events[id].processed
  /\ ~events[QueueLen].processed

\* C26: a movement (steps) nudge is eligible only when the user's local time
\* is within 10:00-19:00; outside that window no movement candidate is
\* produced whatever the step deficit.  The whole hour from 19:00 is counted
\* as inside.
C26_MovementOnlyInWindow ==
  (fx.fn = "rules" /\ ~(10 <= fx.hour /\ fx.hour <= 19)) =>
    /\ \A i \in 1..Len(fx.eligible) : fx.eligible[i] # "move"
    /\ \A i \in 1..Len(fx.nudges) : fx.nudges[i].type # "steps_pace"

\* ------------------------------------------------------ the recent-meal guard
\* A faulty variant of ate_recently: the guard never fires.
ate_never(meals, t) == FALSE

\* ate_recently(meals): meals are the timestamps (minutes) of the meals of
\* the day, newest first; t is now.
ate_recently(meals, t) ==
  meals # <<>> /\ t - meals[1] < ATE_RECENTLY_MINUTES

\* build_nudges for a user whose only open deficit is the calorie one.
kcal_nudges(t, meals, kcal_def) ==
  build_nudges(HourOf(t), Gap(kcal_def, ate_recently(meals, t), 0))

MealsAt(t, meals, kcal_def) ==
  [fn |-> "meals", t |-> t, meals |-> meals, kcal_def |-> kcal_def,
   nudges |-> kcal_nudges(t, meals, kcal_def)]

KcalDeficits == {0, 150, 900}
MealWaits == {25, ATE_RECENTLY_MINUTES - 1, ATE_RECENTLY_MINUTES}

InitMeals ==
  /\ AtRest
  /\ fx \in { MealsAt(HM(10, 30), <<>>, k) : k \in KcalDeficits }

\* The user logs a meal: it is the newest of the day.
LogMeal ==
  /\ fx.fn = "meals" /\ Len(fx.meals) < MaxMeals
  /\ fx' = MealsAt(fx.t, <<fx.t>> \o fx.meals, fx.kcal_def)
  /\ UNCHANGED wvars

\* build_nudges runs again later the same day, the deficit may have changed.
MealsLater ==
  /\ fx.fn = "meals"
  /\ \E d \in MealWaits, k \in KcalDeficits :
       /\ fx.t + d <= HM(14, 0)
       /\ fx' = MealsAt(fx.t + d, fx.meals, k)
  /\ UNCHANGED wvars

SpecMeals == InitMeals /\ [][LogMeal \/ MealsLater]_vars

\* C27: when the user's most recent meal of the day was logged less than 75
\* minutes ago, no calorie-pace nudge is produced, whatever the size of the
\* calorie deficit.
C27_NoKcalNudgeAfterMeal ==
  (fx.fn = "meals" /\ fx.meals # <<>> /\ fx.t - fx.meals[1] < 75) =>
    \A i \in 1..Len(fx.nudges) : fx.nudges[i].type # "kcal_pace"

\* A large deficit after 11:00, 74 minutes after the last meal: the nudge
\* is held back.
C27_Witness ==
  /\ fx.fn = "meals" /\ fx.kcal_def = 900 /\ HourOf(fx.t) >= 11
  /\ fx.meals # <<>> /\ fx.t - fx.meals[1] = 74
  /\ fx.nudges[1].type # "kcal_pace"

\* The score bandit_ucb1 gives an arm of the probe.
ScoreOf(arm) ==
  ucb(fx.rewards[arm], AtLeastOne(fx.counts[arm]),
      AtLeastOne(ucb_total(fx.candidates, fx.counts)))

\* select_nudge took the bandit branch.
ByBandit ==
  /\ fx.fn = "select" /\ fx.chosen # ""
  /\ \E k \in SeqRange(fx.candidates) : fx.counts[k] # 0

\* C28: bandit_ucb1 returns an eligible arm whose score
\* mean_reward + c * sqrt(ln(total) / count), counts floored at 1 and
\* c = 1.2, is maximal over the eligible set.
C28_BanditPicksMaximalScore ==
  ByBandit =>
    /\ fx.chosen \in SeqRange(fx.candidates)
    /\ \A arm \in SeqRange(fx.candidates) :
         ~ScoreGreater(ScoreOf(arm), ScoreOf(fx.chosen))

\* C29: after a telegram send that fails, nothing is retried within the same
\* tick, and neither the decision log nor last_nudge_hash is changed, so the
\* next tick with the same open condition attempts the nudge again: the
\* store the failed cycle leaves behind still asks for the dispatch.
C29_FailedSendLeavesNoTrace ==
  [][\A u \in Users :
       (SweepStep(u) /\ last'.result = "send_failed") =>
         /\ log' = log /\ sent' = sent
         /\ last_nudge_hash' = last_nudge_hash
         /\ ~crashed' /\ \A i \in 1..Len(todo') : todo'[i] # u
         /\ (StoreDecision(u, FALSE) = "dispatch")'
         /\ HashNow(u)' = last'.h]_vars

\* The send of the second sweep failed for a user with an open deficit.
C29_Witness ==
  /\ last.op = "user" /\ last.result = "send_failed" /\ ~last.send_ok
  /\ ticks = 2 /\ gaps[last.uid] # NoGap
  /\ last_nudge_hash[last.uid] # last.h

\* C30: whenever the periodic path sets a user's last_nudge_hash to h, a
\* decision-log entry with hash h exists for that user: the short-circuit
\* cache never records the hash of a nudge that was not dispatched.
C30_CachedHashWasLogged ==
  \A u \in Users :
    last_nudge_hash[u] # NoHash =>
      \E i \in 1..Len(log) : log[i].uid = u /\ log[i].hash = last_nudge_hash[u]

\* --------------------------------------------------- one user's rows only
\* The rows of hw_nudges_log that carry a user's uid, in insertion order.
RowsOf(v) == SelectSeq(log, LAMBDA r : r.uid = v)

\* The processed flags of a user's events.
FlagsOf(v) ==
  [id \in { i \in 1..Len(events) : events[i].uid = v } |-> events[id].processed]

\* What an undisturbed periodic cycle of a user would decide on the store as
\* it stands.
CycleOf(v) ==
  LET r == process_user(v, FALSE, TRUE, TRUE, TRUE)
  IN  [result |-> r.result, hash |-> r.hash, nudges |-> r.nudges, h |-> r.h]

\* C31: handling user A (a periodic cycle for A or one of A's events)
\* writes only A's rows: no other user's decision-log entries,
\* last_nudge_hash or event processed flags change, and what a cycle of
\* another user would decide is the same before and after, so cycles of
\* distinct users commute.
C31_WritesOwnRowsOnly ==
  [][last'.op \in {"user", "event"} =>
       \A v \in Users \ {last'.uid} :
         /\ RowsOf(v)' = RowsOf(v)
         /\ last_nudge_hash'[v] = last_nudge_hash[v]
         /\ FlagsOf(v)' = FlagsOf(v)
         /\ SentTo(v)' = SentTo(v)
         /\ CycleOf(v)' = CycleOf(v)
    ]_vars

\* A cycle has dispatched to a user while another user has rows in the
\* decision log, a cached hash and an event still to be handled.
C31_Witness ==
  /\ last.op = "user" /\ last.result = "sent"
  /\ \E v \in Users \ {last.uid} :
       /\ RowsOf(v) # <<>>
       /\ last_nudge_hash[v] # NoHash
       /\ \E id \in 1..Len(events) : events[id].uid = v /\ ~events[id].processed

\* ------------------------------------------------------- the pace lookup
\* The cumulative fraction of the latest anchor of the list whose hour is
\* not after h, 0 before the first anchor.
LatestAnchor(h, anchors) ==
  LET passed == { i \in 1..Len(anchors) : anchors[i][1] <= h }
  IN  IF passed = {} THEN 0
      ELSE anchors[CHOOSE i \in passed : \A j \in passed : j <= i][2]

\* C32: the pace lookup is a step function: for every local time h and
\* anchor list, the expected fraction equals the cumulative fraction of the
\* latest anchor whose hour is <= h, and 0 when h is before the first
\* anchor; it is never interpolated between anchors.
C32_LookupIsStepFunction ==
  fx.fn = "pace" =>
    fx.frac = LatestAnchor(2 * fx.t, rolling_7d_profile(fx.meals, fx.impl).anchors)

\* ----------------------------------------------------- the 7-day buckets
\* The calories of the four buckets, added up.
BucketSum(meals) ==
  kcal_in(meals, "breakfast") + kcal_in(meals, "lunch")
  + kcal_in(meals, "snacks") + kcal_in(meals, "dinner")

\* C33: when the 7-day profile is built, every meal is counted in exactly
\* one of the four buckets (unrecognized or missing meal types go to
\* snacks), so the bucket calories sum to the 7-day total and, whenever that
\* total is positive, the last anchor's cumulative fraction is 1.
C33_BucketsSumToTotal ==
  (fx.fn = "pace" /\ fx.meals # <<>>) =>
    LET p == rolling_7d_profile(fx.meals, fx.impl)
        total == kcal_in(fx.meals, "")
    IN  /\ \A i \in 1..Len(fx.meals) :
             Cardinality({ k \in SeqRange(MealBuckets) :
                             BucketOf(fx.meals[i].meal_type) = k }) = 1
        /\ BucketSum(fx.meals) = total
        /\ total > 0 => p.anchors[Len(p.anchors)][2] = p.den

\* ------------------------------------------------- the candidates of a cycle
\* What build_nudges can derive from the stores at a local hour: the water
\* deficit is 0 outside the hydration blocks (9-19), where exp_water is 0.
SignalSet(hour) ==
  { g \in [kcal_def : {0, 300}, ate : BOOLEAN, step_def : {0, 1000},
           water_def : {0, 200}, sleep_low : BOOLEAN, mood_low : BOOLEAN] :
      g.water_def > 0 => (9 <= hour /\ hour <= 19) }

NudgesAt(hour, g) ==
  [fn |-> "nudges", hour |-> hour, g |-> g, nudges |-> build_nudges(hour, g)]

InitNudges ==
  /\ AtRest
  /\ fx \in { NudgesAt(0, g) : g \in SignalSet(0) }

\* build_nudges is called again an hour later, on what the stores hold then.
NudgesNextHour ==
  /\ fx.hour < 23
  /\ \E g \in SignalSet(fx.hour + 1) : fx' = NudgesAt(fx.hour + 1, g)
  /\ UNCHANGED wvars

SpecNudges == InitNudges /\ [][NudgesNextHour]_vars

\* The place of a deficit candidate in the priority order, 0 for a fallback.
Priority(type) ==
  CASE type = "kcal_pace" -> 1
    [] type = "steps_pace" -> 2
    [] type = "water_pace" -> 3
    [] type = "sleep_recovery" -> 4
    [] type = "mood_reset" -> 5
    [] OTHER -> 0

\* C34: build_nudges always returns between 1 and 3 candidates in the fixed
\* priority order kcal_pace, steps_pace, water_pace, sleep_recovery,
\* mood_reset; the fallbacks 'breathing' (local hour 10..18 only) and
\* 'on_track' appear only alone, never together with a deficit candidate.
C34_OneToThreeInPriorityOrder ==
  fx.fn = "nudges" =>
    LET n == fx.nudges
    IN  /\ 1 <= Len(n) /\ Len(n) <= 3
        /\ \A i \in 1..Len(n) :
             n[i].type \in {"kcal_pace", "steps_pace", "water_pace",
                            "sleep_recovery", "mood_reset", "breathing",
                            "on_track"}
        /\ \A i, j \in 1..Len(n) :
             i < j => (/\ Priority(n[i].type) > 0
                       /\ Priority(n[i].type) < Priority(n[j].type))
        /\ \A i \in 1..Len(n) :
             /\ Priority(n[i].type) = 0 => Len(n) = 1
             /\ n[i].type = "breathing" => (10 <= fx.hour /\ fx.hour <= 18)

\* Every one of the five deficit rules fired and the list was cut to the
\* first three.
C34_Witness ==
  /\ fx.fn = "nudges"
  /\ fx.g.kcal_def >= 150 /\ ~fx.g.ate /\ fx.hour >= 11
  /\ fx.g.step_def >= 500 /\ fx.g.water_def >= 150
  /\ fx.g.sleep_low /\ fx.g.mood_low
  /\ Len(fx.nudges) = 3 /\ fx.nudges[3].type = "water_pace"

\* ------------------------------------------------ the queue is worked off
\* pages/06_Log_Metrics.py: a form is saved while the long queue is being
\* worked off.
SaveForm(u, e) ==
  /\ ~crashed /\ Idle /\ ticks < MaxTicks /\ Len(events) <= QueueLen
  /\ events' = Append(events, e @@ [uid |-> u, ts |-> now, processed |-> FALSE])
  /\ last' = [NoStep EXCEPT !.op = "env"]
  /\ UNCHANGED <<now, ticks, prefs, last_nudge_hash, gaps, log, batch, todo,
                 crashed, sent, disturb, fx, cyc>>

\* No handling of an event fails, and the sweeps that follow the drains go
\* through.
HandleSafely == \E busy \in BOOLEAN : HandleEvent(busy, TRUE, TRUE, TRUE)

SweepOn == \E busy \in BOOLEAN : SweepUser(busy, TRUE, TRUE, TRUE)

KeepTicking == \E d \in Delays : Tick(d)

NextLive ==
  \/ KeepTicking
  \/ HandleSafely
  \/ SweepOn
  \/ \E u \in Movers, e \in EventSet : SaveForm(u, e)

\* main_loop is one sequential loop: whatever step it stands before is
\* taken.
SpecLive ==
  /\ InitDrain /\ [][NextLive]_vars
  /\ WF_vars(KeepTicking) /\ WF_vars(HandleSafely) /\ WF_vars(SweepOn)

\* Every row of hw_events has been marked processed.
AllProcessed == \A id \in 1..Len(events) : events[id].processed

\* C35: every event inserted with processed = false is eventually marked
\* processed, provided its handling does not fail and the loop keeps
\* ticking, also when more than 50 events are pending (a drain is limited to
\* 50 events per tick).  Forms are saved finitely often, so this is: from
\* some point on no row is left unprocessed.
C35_EveryEventEventuallyProcessed == <>[]AllProcessed

\* More than 50 events were pending, a form was saved on top of them, and
\* the last row of the queue has been marked processed.
C35_Witness ==
  /\ Len(events) = QueueLen + 1
  /\ \A id \in 1..Len(events) : events[id].processed

\* ------------------------------------------------- events met while muted
\* The event a step of process_events handled was met in the user's quiet
\* hours or while the calendar answered busy.
MetSuppressed ==
  last'.op = "event" /\ (QuietNow(last'.uid) \/ last'.busy)

\* The handler took the `continue` branch: the event is marked and nothing
\* was sent or logged.
MarkedUnseen ==
  /\ last'.result = "suppressed"
  /\ events'[last'.ev].processed
  /\ log' = log /\ sent' = sent

ReflexEvents ==
  { [kind |-> "metrics_saved", water_ml |-> w, meal_type |-> "", calories |-> 0] :
      w \in {0, 250} }
  \cup { [kind |-> "meal_logged", water_ml |-> 0, meal_type |-> mt, calories |-> c] :
           mt \in {"dinner", "lunch"}, c \in {0, 799, 800, 900} }
  \cup { [kind |-> "profile_saved", water_ml |-> 0, meal_type |-> "dinner",
          calories |-> 900] }

ReflexAt(hour, ev) ==
  [fn |-> "reflex", hour |-> hour, ev |-> ev, msgs |-> react_to_event(hour, ev)]

InitReflex ==
  /\ AtRest
  /\ fx \in { ReflexAt(0, ev) : ev \in ReflexEvents }

\* The same event is met an hour later.
ReflexNextHour ==
  /\ fx.hour < 23
  /\ fx' = ReflexAt(fx.hour + 1, fx.ev)
  /\ UNCHANGED wvars

SpecReflex == InitReflex /\ [][ReflexNextHour]_vars

Outcome(ok, read_error, has_10035, socket) ==
  [ok |-> ok, read_error |-> read_error, has_10035 |-> has_10035,
   socket |-> socket]

Result == Outcome(TRUE, FALSE, FALSE, FALSE)
\* httpx.ReadError; OSError [WinError 10035]; a PostgREST error on a missing
\* column; a PostgREST error whose text quotes a row holding the number 10035
\* (a step count, an id).
ExecuteOutcomes ==
  { Result,
    Outcome(FALSE, TRUE, FALSE, FALSE),
    Outcome(FALSE, FALSE, TRUE, TRUE),
    Outcome(FALSE, FALSE, FALSE, FALSE),
    Outcome(FALSE, FALSE, TRUE, FALSE) }

\* The values of `tries`: the default and two smaller ones.
TriesValues == {0, 1, 3}

\* A call of exec_with_retry: i is the index of the for loop, seen the
\* outcomes of the attempts made so far, pc where the call stands.
RetryAt(tries, i, seen, pc) ==
  [fn |-> "retry", tries |-> tries, i |-> i, seen |-> seen, pc |-> pc]

\* exec_with_retry: the call after one more req.execute() that ended in o.
exec_with_retry(c, o) ==
  LET seen == Append(c.seen, o)
  IN  IF c.pc = "loop"
        THEN IF o.ok THEN RetryAt(c.tries, c.i, seen, "returned")
             ELSE IF o.has_10035 \/ o.read_error
               THEN RetryAt(c.tries, c.i + 1, seen,
                            IF c.i + 1 < c.tries THEN "loop" ELSE "final")
             ELSE RetryAt(c.tries, c.i, seen, "raised")
      ELSE RetryAt(c.tries, c.i, seen, IF o.ok THEN "returned" ELSE "raised")

InitRetry ==
  /\ AtRest
  /\ fx \in { RetryAt(t, 0, <<>>, IF 0 < t THEN "loop" ELSE "final") :
               t \in TriesValues }

\* One pass of `for i in range(tries): try: return req.execute()`.
LoopAttempt ==
  /\ fx.pc = "loop"
  /\ \E o \in ExecuteOutcomes : fx' = exec_with_retry(fx, o)
  /\ UNCHANGED wvars

\* The `return req.execute()` after the loop.
FinalAttempt ==
  /\ fx.pc = "final"
  /\ \E o \in ExecuteOutcomes : fx' = exec_with_retry(fx, o)
  /\ UNCHANGED wvars

NextRetry == LoopAttempt \/ FinalAttempt

SpecRetry == InitRetry /\ [][NextRetry]_vars

\* The call made no attempt after a result or after the last attempt it is
\* allowed, and it returned exactly when an attempt succeeded.
BoundedAttempts ==
  /\ Len(fx.seen) <= fx.tries + 1
  /\ Len(fx.seen) = fx.tries + 1 => fx.pc \in {"returned", "raised"}
  /\ \A k \in 1..(Len(fx.seen) - 1) : ~fx.seen[k].ok
  /\ fx.pc = "returned" <=> (fx.seen # <<>> /\ fx.seen[Len(fx.seen)].ok)
  /\ fx.pc = "raised" => ~fx.seen[Len(fx.seen)].ok

\* C38: exec_with_retry always terminates: it makes at most tries + 1
\* execution attempts, returns the result of the first attempt that
\* succeeds, retries only transient errors (socket error 10035 /
\* ReadError), and propagates any other error at once without another
\* attempt.
C38_BoundedRetryOfTransientOnly ==
  fx.fn = "retry" =>
    /\ BoundedAttempts
    /\ \A k \in 1..(Len(fx.seen) - 1) :
         fx.seen[k].socket \/ fx.seen[k].read_error

\* --------------------------------------------------------------- the buckets
\* _bucket of a value and of the value before it, for a bucket size of the
\* worker.
BucketAt(size, val) ==
  [fn |-> "bucket", size |-> size, val |-> val,
   prev |-> _bucket(val - 1, size), b |-> _bucket(val, size)]

InitBucket ==
  /\ AtRest
  /\ fx \in { BucketAt(size, -size) :
               size \in {STEP_BUCKET, KCAL_BUCKET, WATER_BUCKET} }

\* The next larger value is bucketed.
BucketNext ==
  /\ fx.val < 3 * fx.size
  /\ fx' = BucketAt(fx.size, fx.val + 1)
  /\ UNCHANGED wvars

SpecBucket == InitBucket /\ [][BucketNext]_vars

\* C39: for every deficit value and bucket size, _bucket returns 0 for
\* values <= 0 and otherwise a non-negative multiple of the size that is at
\* most size/2 away from the value, and it is monotone non-decreasing in the
\* value, so two deficits that differ by a full bucket size or more never
\* share a bucket.  Deficits are max(0, ...), so the pairs are taken from
\* the values >= 0.
C39_BucketNearestAndSeparating ==
  fx.fn = "bucket" =>
    /\ fx.val <= 0 => fx.b = 0
    /\ fx.val > 0 =>
         /\ fx.b >= 0 /\ fx.b % fx.size = 0
         /\ 2 * (fx.b - fx.val) <= fx.size /\ 2 * (fx.val - fx.b) <= fx.size
    /\ fx.prev <= fx.b
    /\ fx.val >= 0 => _bucket(fx.val + fx.size, fx.size) # fx.b

====
